---- MODULE Spec2Model ----
(***************************************************************************)
(* Model of the streaming session engine of eikon (src/eikon/              *)
(* streaming_session): Session, StreamConnection, Stream / ItemStream,     *)
(* StreamingPrice (StreamCache) and StreamingPrices.                       *)
(*                                                                         *)
(* Python objects are modelled by their fields.  None is modelled by 0     *)
(* for integer ids and by the string "None" elsewhere.  A threading.Event  *)
(* is its flag plus, for every thread, whether the thread is parked in     *)
(* wait() ("blocked") or has been notified by set() ("woken").             *)
(***************************************************************************)
EXTENDS Integers, Sequences, FiniteSets, TLC

(***************************************************************************)
(* Bounds of the model.                                                    *)
(***************************************************************************)
NumStreams == 4     \* stream objects that can be constructed
NumMembers == 2     \* instruments of the StreamingPrices aggregate
MaxFrames == 2      \* inbound websocket frames handled in a run of Spec
MaxAggFrames == 3   \* inbound websocket frames handled in a run of SpecAgg
MaxCalls == 3       \* API calls made by one caller thread in a run
MaxRegistryOps == 5 \* _register_stream / _unregister_stream calls in a run of SpecRegistry
MaxId == 3          \* the id generator is followed up to this id
MaxCycleFrames == 3 \* inbound websocket frames handled in a run of SpecCycle
MaxCallbackFrames == 3 \* inbound websocket frames handled in a run of SpecCallbacks
MaxOpens == 2       \* open() calls on the stream in a run of SpecClose
MaxCloses == 1      \* Session.close() calls in a run of SpecClose
NoValue == 0 - 1    \* Python's None where a field value is expected

Streams == 1..NumStreams
Members == 1..NumMembers
Callers == {"t1", "t2"}
FieldNames == {"BID", "ASK"}

(* The empty Python dict of fields.                                        *)
EmptyMap == [f \in {} |-> 0]

TerminalStreamStatus == {"Closed", "ClosedRecover", "NonStreaming", "Redirect"}

VARIABLES
    (* Session *)
    session_state,            \* Session._state
    status,                   \* Session._status
    is_closing,               \* Session._is_closing
    login_event,              \* Session._login_event (flag)
    start_streaming_event,    \* Session._start_streaming_event (flag)
    stop_streaming_event,     \* Session._stop_streaming_event (flag)
    streaming_session,        \* Session._streaming_session: 0 or the connection's id
    id_request,               \* Session._id_request
    reg_tmp,                  \* value of _id_request read by the thread inside _register_stream
    all_stream_subscriptions, \* Session._all_stream_subscriptions: id -> stream
    event_log,                \* calls of the user's on_event callback
    state_log,                \* calls of the user's on_state callback
    (* StreamConnection *)
    streaming_session_id,     \* StreamConnection._streaming_session_id of the live connection
    conn_state,               \* StreamConnection._state
    ws_connected,             \* StreamConnection._ws_connected
    ws_is_logged,             \* StreamConnection._ws_is_logged
    ws_login_id,              \* StreamConnection._ws_login_id (0: None)
    conn_is_closing,          \* StreamConnection._is_closing
    websocket,                \* StreamConnection._websocket is not None
    conn_events_current,      \* the connection's start/stop events are the Session's current ones
    conn_start_event,         \* flag of the connection's own start event when not current
    conn_stop_event,          \* flag of the connection's own stop event when not current
    net_pc,                   \* position of the connection thread in run()
    net_tmp,                  \* local value of the connection thread inside _get_new_id
    sent,                     \* frames written to the socket, in order
    n_frames,                 \* inbound frames handled so far
    net_exc,                  \* exception raised by the last websocket callback ("none")
    (* Stream / ItemStream *)
    stream_id,                \* Stream._stream_id (0: None)
    stream_state,             \* Stream._state
    response_event,           \* Stream._response_event (flag)
    code,                     \* ItemStream._code
    message,                  \* ItemStream._message
    cb,                       \* calls of the ItemStream callbacks, per stream and kind
    cb_arg,                   \* Fields of the message last given to the refresh callback
    (* StreamingPrice (StreamCache) *)
    record,                   \* StreamCache._record
    (* StreamingPrices *)
    prices_state,             \* StreamingPrices._state
    complete_event_nb,        \* StreamingPrices._complete_event_nb
    completed,                \* members whose stream has signalled completion in this cycle
    loop_calls,               \* callbacks handed to loop.call_soon_threadsafe, in order
    universe,                 \* StreamingPrices.params.instruments: the member streams
    snapshot,                 \* the last get_snapshot(): its arguments, rows and exception
    agg_caller,               \* the thread inside StreamingPrices.open() / close() ("none")
    agg_todo,                 \* the members that call has still to open / close
    (* caller threads *)
    pc,                       \* position of each caller thread
    target,                   \* the stream the current call is about
    wait,                     \* "run", "blocked" or "woken", per thread (callers and "net")
    result,                   \* wait_for_streaming()'s result held by the caller
    last_call,                \* the caller's last call
    ret,                      \* what the caller's last call returned
    n_calls,                  \* calls made by the caller
    (* outcome of the last operation *)
    last                      \* the operation of the last step, its arguments and outcome

sessVars == <<session_state, status, is_closing, login_event, start_streaming_event,
              stop_streaming_event, streaming_session, event_log, state_log>>
regVars == <<id_request, reg_tmp, all_stream_subscriptions, stream_id>>
connVars == <<streaming_session_id, conn_state, ws_connected, ws_is_logged, ws_login_id,
              conn_is_closing, websocket, conn_events_current, conn_start_event,
              conn_stop_event, net_pc, net_tmp, sent, n_frames, net_exc>>
streamVars == <<stream_state, response_event, code, message, cb, cb_arg>>
priceVars == <<record, prices_state, complete_event_nb, completed, loop_calls, universe,
               snapshot, agg_caller, agg_todo>>
callerVars == <<pc, target, wait, result, last_call, ret, n_calls>>

vars == <<sessVars, regVars, connVars, streamVars, priceVars, callerVars, last>>

(***************************************************************************)
(* Messages of an inbound frame.  Every key the handlers read is a field;  *)
(* hasState / hasFields / Complete = "absent" say that the key is missing. *)
(***************************************************************************)
Msg(type, id, domain, hasState, stream, data, complete, hasFields, fields) ==
    [hasState |-> hasState, hasFields |-> hasFields, Type |-> type, ID |-> id,
     Domain |-> domain, Stream |-> stream, Data |-> data, Complete |-> complete,
     Fields |-> fields]

NoRecord == [present |-> FALSE, Type |-> "None", hasFields |-> FALSE, Fields |-> EmptyMap]

CbKinds == {"refresh", "update", "status", "complete", "error"}
NoCalls == [k \in CbKinds |-> 0]

(***************************************************************************)
(* The part of the state the websocket callbacks work on, as one record,   *)
(* so that a handler is a function from state to state and a frame of      *)
(* several messages is the composition of its messages' handlers.  exc is  *)
(* the exception that left the handler ("none": it returned); raising is   *)
(* the kinds of user callback that raise when called during this frame.    *)
(***************************************************************************)
World ==
    [stream_state |-> stream_state, response_event |-> response_event, code |-> code,
     message |-> message, cb |-> cb, cb_arg |-> cb_arg, record |-> record,
     complete_event_nb |-> complete_event_nb, completed |-> completed,
     loop_calls |-> loop_calls, status |-> status, login_event |-> login_event,
     event_log |-> event_log, conn_state |-> conn_state, ws_is_logged |-> ws_is_logged,
     sent |-> sent, wait |-> wait, exc |-> "none", raising |-> {}]

(* threading.Event.set(): the flag is raised and every thread parked in    *)
(* wait() on this event is notified.                                       *)
Notify(wt, pcs, s) ==
    [t \in DOMAIN wt |->
        IF t \in Callers /\ pc[t] \in pcs /\ target[t] = s /\ wt[t] = "blocked"
        THEN "woken" ELSE wt[t]]

NotifyAll(wt, pcs) ==
    [t \in DOMAIN wt |->
        IF t \in Callers /\ pc[t] \in pcs /\ wt[t] = "blocked" THEN "woken" ELSE wt[t]]

SetResponseEvent(w, s) ==
    [w EXCEPT !.response_event[s] = TRUE, !.wait = Notify(@, {"o_wait"}, s)]

SetLoginEvent(w) ==
    [w EXCEPT !.login_event = TRUE, !.wait = NotifyAll(@, {"o_login_wait"})]

(* StreamConnection.send / _send *)
Send(w, kind, id) ==
    IF websocket /\ ws_connected
    THEN [w EXCEPT !.sent = Append(@, [kind |-> kind, id |-> id])]
    ELSE w

(***************************************************************************)
(* Session._on_event, called by the connection ssid.                       *)
(***************************************************************************)
SessionOnEvent(w, ssid, event_code, cause) ==
    IF streaming_session # 0 /\ ssid = streaming_session /\ w.status # event_code
    THEN LET w1 == [w EXCEPT !.status = event_code,
                             !.event_log = Append(@, [code |-> event_code, cause |-> cause])]
         IN IF event_code = "StreamDisconnected" THEN SetLoginEvent(w1) ELSE w1
    ELSE w

(***************************************************************************)
(* StreamingPrices: the handlers the member StreamingPrice objects call.   *)
(***************************************************************************)
(* the aggregate's callback called in place, nothing handed to the loop *)
ScheduleDirect(w, kind, s) == w

Schedule(w, kind, s) ==
    [w EXCEPT !.loop_calls = Append(@, [kind |-> kind, name |-> s])]

PricesOnComplete(w, s) ==
    LET w1 == [w EXCEPT !.complete_event_nb = @ + 1, !.completed = @ \cup {s}]
    IN IF w1.complete_event_nb = Cardinality(universe)
       THEN Schedule(w1, "complete", 0)
       ELSE w1

(***************************************************************************)
(* StreamingPrice: the handlers its ItemStream calls.  An exception in     *)
(* them is caught by the ItemStream's try/except around the callback, so   *)
(* what was assigned before it stays.                                      *)
(***************************************************************************)
(* dict.update, had it been an assignment of the update's Fields *)
ReplaceFields(old, new) == new

(* dict.update *)
MergeFields(old, new) ==
    [f \in DOMAIN old \cup DOMAIN new |-> IF f \in DOMAIN new THEN new[f] ELSE old[f]]

PriceOnRefresh(w, s, m) ==
    LET w1 == [w EXCEPT !.record[s] = [present |-> TRUE, Type |-> m.Type,
                                       hasFields |-> m.hasFields, Fields |-> m.Fields]]
    IN IF m.hasFields THEN Schedule(w1, "refresh", s) ELSE w1

PriceOnUpdate(w, s, m) ==
        \* for data in update: ... with the keys in wire order, Type before Fields
    IF ~w.record[s].present THEN w
    ELSE LET w1 == [w EXCEPT !.record[s].Type = m.Type]
         IN IF ~m.hasFields THEN w1
            ELSE IF ~w1.record[s].hasFields THEN w1
            ELSE Schedule([w1 EXCEPT !.record[s].Fields = MergeFields(@, m.Fields)],
                          "update", s)

PriceOnStatus(w, s) == Schedule(w, "status", s)

(***************************************************************************)
(* ItemStream callbacks: the user's (counted), or, for a member of the     *)
(* aggregate, the StreamingPrice's.                                        *)
(***************************************************************************)
(* self._callbacks.on_<kind>(...): the call itself *)
UserCallback(w, s, kind, m) ==
    LET w1 == [w EXCEPT !.cb[s][kind] = @ + 1,
                        !.cb_arg[s] = IF kind = "refresh" THEN m.Fields ELSE @]
    IN IF kind \in w.raising THEN [w1 EXCEPT !.exc = "Exception"]
       ELSE IF s \notin universe THEN w1
       ELSE CASE kind = "refresh" -> PriceOnRefresh(w1, s, m)
              [] kind = "update" -> PriceOnUpdate(w1, s, m)
              [] kind = "status" -> PriceOnStatus(w1, s)
              [] kind = "complete" -> PricesOnComplete(w1, s)
              [] OTHER -> w1

(* the call, had it not been inside try / except Exception *)
CallbackUnguarded(w, s, kind, m) == UserCallback(w, s, kind, m)

(* try: self._callbacks.on_<kind>(...) except Exception: log *)
Callback(w, s, kind, m) == [UserCallback(w, s, kind, m) EXCEPT !.exc = w.exc]

(* ItemStream._on_stream_state over Stream._on_stream_state *)
ItemOnStreamState(w, s, st, m) ==
    Callback([w EXCEPT !.stream_state[s] = st], s, "status", m)

(* Stream._on_refresh, had it set Open from any state *)
StreamOnRefreshUnchecked(w, s) ==
    SetResponseEvent([w EXCEPT !.stream_state[s] = "Open"], s)

(* Stream._on_refresh *)
StreamOnRefresh(w, s) ==
    SetResponseEvent([w EXCEPT !.stream_state[s] =
                          IF @ \in {"Pending", "Open"} THEN "Open" ELSE @], s)

(* ItemStream._on_refresh *)
ItemOnRefresh(w, s, m) ==
    IF ~m.hasState THEN [w EXCEPT !.exc = "AttributeError"]
    ELSE LET w1 == [w EXCEPT !.code[s] = m.Stream, !.message[s] = "Text"]
             w2 == IF w1.stream_state[s] = "Pending"
                   THEN ItemOnStreamState(w1, s, "Open", m) ELSE w1
             w3 == StreamOnRefresh(w2, s)
         IN IF w3.stream_state[s] # "Closed" THEN Callback(w3, s, "refresh", m) ELSE w3

(* ItemStream._on_status, had a terminal status closed an Open stream only *)
ItemOnStatusFromOpen(w, s, m) ==
    IF ~m.hasState THEN [w EXCEPT !.exc = "AttributeError"]
    ELSE LET w1 == [w EXCEPT !.code[s] = m.Stream, !.message[s] = "Text"]
             w2 == IF m.Stream \in TerminalStreamStatus /\ w1.stream_state[s] = "Open"
                   THEN [w1 EXCEPT !.stream_state[s] = "Closed", !.code[s] = "Code"]
                   ELSE w1
         IN SetResponseEvent(Callback(w2, s, "status", m), s)

(* ItemStream._on_status over Stream._on_status *)
ItemOnStatus(w, s, m) ==
    IF ~m.hasState THEN [w EXCEPT !.exc = "AttributeError"]
    ELSE LET w1 == [w EXCEPT !.code[s] = m.Stream, !.message[s] = "Text"]
             w2 == IF m.Stream \in TerminalStreamStatus
                   THEN [w1 EXCEPT !.stream_state[s] = "Closed", !.code[s] = "Code"]
                   ELSE w1
         IN SetResponseEvent(Callback(w2, s, "status", m), s)

(* ItemStream._on_update over Stream._on_update *)
ItemOnUpdate(w, s, m) ==
    IF w.stream_state[s] # "Closed" THEN Callback(w, s, "update", m) ELSE w

(* ItemStream._on_complete over Stream._on_complete *)
ItemOnComplete(w, s, m) ==
    IF w.stream_state[s] # "Closed" THEN Callback(w, s, "complete", m) ELSE w

(* ItemStream._on_error over Stream._on_error *)
ItemOnError(w, s, m) ==
    LET w1 == SetResponseEvent(w, s)
    IN IF w1.stream_state[s] # "Closed"
       THEN Callback([w1 EXCEPT !.message[s] = "Error"], s, "error", m)
       ELSE w1

(***************************************************************************)
(* StreamConnection: dispatch of one message.                              *)
(***************************************************************************)
(* Session._get_stream: the stream registered under id, 0 for None *)
GetStream(id) ==
    IF id \in DOMAIN all_stream_subscriptions THEN all_stream_subscriptions[id] ELSE 0

(* _process_login_response, had it looked at State.Stream alone *)
ProcessLoginResponseStreamOnly(w, m) ==
    IF ~m.hasState THEN [w EXCEPT !.exc = "AttributeError"]
    ELSE LET w1 == IF m.Stream = "Open"
                   THEN SessionOnEvent([w EXCEPT !.conn_state = "OPEN", !.ws_is_logged = TRUE],
                                       streaming_session_id, "StreamConnected", "login")
                   ELSE SessionOnEvent([w EXCEPT !.conn_state = "CLOSED"],
                                       streaming_session_id, "StreamDisconnected", "login")
         IN SetLoginEvent(w1)

ProcessLoginResponse(w, m) ==
    IF ~m.hasState THEN [w EXCEPT !.exc = "AttributeError"]
    ELSE LET w1 == IF m.Stream = "Open" /\ m.Data = "Ok"
                   THEN SessionOnEvent([w EXCEPT !.conn_state = "OPEN", !.ws_is_logged = TRUE],
                                       streaming_session_id, "StreamConnected", "login")
                   ELSE SessionOnEvent([w EXCEPT !.conn_state = "CLOSED"],
                                       streaming_session_id, "StreamDisconnected", "login")
         IN SetLoginEvent(w1)

ProcessStatusMessage(w, m) ==
    IF ~m.hasState THEN [w EXCEPT !.exc = "KeyError"]
    ELSE LET s == GetStream(m.ID)
         IN IF s # 0 THEN ItemOnStatus(w, s, m) ELSE w

(* _process_refresh_message, had it delivered "complete" whatever the flag *)
ProcessRefreshMessageAlwaysComplete(w, m) ==
    LET s == GetStream(m.ID)
    IN IF s = 0 THEN w
       ELSE LET w1 == ItemOnRefresh(w, s, m)
            IN IF w1.exc # "none" THEN w1 ELSE ItemOnComplete(w1, s, m)

ProcessRefreshMessage(w, m) ==
    LET s == GetStream(m.ID)
    IN IF s = 0 THEN w
       ELSE LET w1 == ItemOnRefresh(w, s, m)
            IN IF w1.exc # "none" THEN w1
               ELSE IF m.Complete \in {"absent", "true"} THEN ItemOnComplete(w1, s, m)
               ELSE w1

ProcessUpdateMessage(w, m) ==
    LET s == GetStream(m.ID)
    IN IF s # 0 THEN ItemOnUpdate(w, s, m) ELSE w

ProcessErrorMessage(w, m) ==
    LET s == GetStream(m.ID)
    IN IF s # 0 THEN ItemOnError(w, s, m)
       ELSE IF m.ID = ws_login_id THEN [w EXCEPT !.exc = "NameError"]
       ELSE w

ProcessMessage(w, m) ==
    IF is_closing THEN w
    ELSE CASE m.Type = "Refresh" ->
                IF m.Domain = "Login" THEN ProcessLoginResponse(w, m)
                ELSE ProcessRefreshMessage(w, m)
           [] m.Type = "Update" -> ProcessUpdateMessage(w, m)
           [] m.Type = "Status" ->
                IF m.Domain = "Login" THEN ProcessLoginResponse(w, m)
                ELSE ProcessStatusMessage(w, m)
           [] m.Type = "Error" -> ProcessErrorMessage(w, m)
           [] m.Type = "Ping" -> Send(w, "Pong", 0)
           [] OTHER -> w

(* StreamConnection._on_message: the messages of one frame, in order; an  *)
(* exception ends the frame.                                               *)
RECURSIVE OnMessage(_, _)
OnMessage(w, ms) ==
    IF ms = <<>> THEN w
    ELSE LET w1 == ProcessMessage(w, Head(ms))
         IN IF w1.exc # "none" THEN w1 ELSE OnMessage(w1, Tail(ms))

(* The variables a websocket callback leaves as the world record says.     *)
Commit(w) ==
    /\ stream_state' = w.stream_state
    /\ response_event' = w.response_event
    /\ code' = w.code
    /\ message' = w.message
    /\ cb' = w.cb
    /\ cb_arg' = w.cb_arg
    /\ record' = w.record
    /\ complete_event_nb' = w.complete_event_nb
    /\ completed' = w.completed
    /\ loop_calls' = w.loop_calls
    /\ status' = w.status
    /\ login_event' = w.login_event
    /\ event_log' = w.event_log
    /\ conn_state' = w.conn_state
    /\ ws_is_logged' = w.ws_is_logged
    /\ sent' = w.sent
    /\ wait' = w.wait
    /\ net_exc' = w.exc

(***************************************************************************)
(* The step just taken: the operation, the thread, the stream and the      *)
(* message it was about, and the exception it ended with ("none").         *)
(***************************************************************************)
NoMsg == Msg("None", 0, "absent", FALSE, "None", "None", "absent", FALSE, EmptyMap)
Op(op, who, s, m, exc) == [op |-> op, who |-> who, s |-> s, m |-> m, exc |-> exc]

(* The start / stop events the connection thread holds: the ones given to  *)
(* its constructor, which are the Session's until _start_streaming         *)
(* replaces the Session's.                                                 *)
ConnStartFlag == IF conn_events_current THEN start_streaming_event ELSE conn_start_event

(***************************************************************************)
(* State after construction of a Session and of one ItemStream on it.      *)
(***************************************************************************)
InitSession ==
    /\ session_state = "Closed"
    /\ status = "StreamDisconnected"
    /\ is_closing = FALSE
    /\ login_event = FALSE
    /\ start_streaming_event = FALSE
    /\ stop_streaming_event = FALSE
    /\ streaming_session = 0
    /\ event_log = <<>>
    /\ state_log = <<>>

InitConnection ==
    /\ streaming_session_id = 0
    /\ conn_state = "CLOSED"
    /\ ws_connected = FALSE
    /\ ws_is_logged = FALSE
    /\ ws_login_id = 0
    /\ conn_is_closing = FALSE
    /\ websocket = FALSE
    /\ conn_events_current = FALSE
    /\ conn_start_event = FALSE
    /\ conn_stop_event = FALSE
    /\ net_pc = "none"
    /\ net_tmp = 0
    /\ sent = <<>>
    /\ n_frames = 0
    /\ net_exc = "none"

InitStreams ==
    /\ stream_state = [s \in Streams |-> "Closed"]
    /\ response_event = [s \in Streams |-> FALSE]
    /\ code = [s \in Streams |-> "None"]
    /\ message = [s \in Streams |-> "None"]
    /\ cb = [s \in Streams |-> NoCalls]
    /\ cb_arg = [s \in Streams |-> EmptyMap]
    /\ record = [s \in Streams |-> NoRecord]

InitCallers ==
    /\ pc = [t \in Callers |-> "idle"]
    /\ target = [t \in Callers |-> 0]
    /\ wait = [t \in Callers \cup {"net"} |-> "run"]
    /\ result = [t \in Callers |-> FALSE]
    /\ last_call = [t \in Callers |-> "none"]
    /\ ret = [t \in Callers |-> "none"]
    /\ n_calls = [t \in Callers |-> 0]
    /\ last = Op("init", "none", 0, NoMsg, "none")

NoSnapshot == [names |-> <<>>, fields |-> {}, rows |-> <<>>, exc |-> "none"]

NoPrices ==
    /\ prices_state = "Closed"
    /\ complete_event_nb = 0
    /\ completed = {}
    /\ loop_calls = <<>>
    /\ universe = {}
    /\ snapshot = NoSnapshot
    /\ agg_caller = "none"
    /\ agg_todo = {}

(* Streams 1..n constructed in turn: Stream.__init__ registers each.       *)
Registered(n) ==
    /\ id_request = n
    /\ reg_tmp = 0
    /\ all_stream_subscriptions = [i \in 1..n |-> i]
    /\ stream_id = [s \in Streams |-> IF s <= n THEN s ELSE 0]

Init ==
    /\ InitSession /\ InitConnection /\ InitStreams /\ InitCallers /\ NoPrices
    /\ Registered(1)

(***************************************************************************)
(* DesktopSession.open(): the proxy port is found or not.                  *)
(***************************************************************************)
SessionOpen(t, found) ==
    /\ pc[t] = "idle"
    /\ session_state = "Closed"
    /\ session_state' = IF found THEN "Open" ELSE session_state
    /\ state_log' = IF found THEN Append(state_log, "Open") ELSE state_log
    /\ last' = Op("session_open", t, 0, NoMsg, "none")
    /\ UNCHANGED <<status, is_closing, login_event, start_streaming_event,
                   stop_streaming_event, streaming_session, event_log>>
    /\ UNCHANGED <<regVars, connVars, streamVars, priceVars, callerVars>>

(***************************************************************************)
(* Stream.open() -> ItemStream.open_async -> Stream.open_async, by steps.  *)
(***************************************************************************)
(* The call returns: to the user, or to the StreamingPrices call it is part of. *)
Return(t, value) ==
    /\ pc' = [pc EXCEPT ![t] = IF t = agg_caller THEN "p_next" ELSE "idle"]
    /\ ret' = [ret EXCEPT ![t] = value]

(* stream.py 123-133, had the test of lines 129-131 been left out *)
OpenAsyncUnchecked(t, s) ==
    /\ target' = [target EXCEPT ![t] = s]
    /\ IF session_state = "Closed"
       THEN /\ Return(t, "EikonError")
            /\ last' = Op("open", t, s, NoMsg, "EikonError")
            /\ UNCHANGED stream_state
       ELSE /\ stream_state' = [stream_state EXCEPT ![s] = "Pending"]
            /\ pc' = [pc EXCEPT ![t] = "o_start"]
            /\ last' = Op("open_begin", t, s, NoMsg, "none")
            /\ UNCHANGED ret
    /\ UNCHANGED <<response_event, code, message, cb, cb_arg, wait, result>>
    /\ UNCHANGED <<sessVars, regVars, connVars>>

(* stream.py 123-133 *)
OpenAsync(t, s) ==
    /\ target' = [target EXCEPT ![t] = s]
    /\ IF session_state = "Closed"
       THEN /\ Return(t, "EikonError")
            /\ last' = Op("open", t, s, NoMsg, "EikonError")
            /\ UNCHANGED stream_state
       ELSE IF stream_state[s] \in {"Open", "Pending"}
       THEN /\ Return(t, stream_state[s])
            /\ last' = Op("open_again", t, s, NoMsg, "none")
            /\ UNCHANGED stream_state
       ELSE /\ stream_state' = [stream_state EXCEPT ![s] = "Pending"]
            /\ pc' = [pc EXCEPT ![t] = "o_start"]
            /\ last' = Op("open_begin", t, s, NoMsg, "none")
            /\ UNCHANGED ret
    /\ UNCHANGED <<response_event, code, message, cb, cb_arg, wait, result>>
    /\ UNCHANGED <<sessVars, regVars, connVars>>

(* stream.py 84-89, itemstream.py 267-272: open() called by the user *)
OpenBegin(t, s) ==
    /\ pc[t] = "idle"
    /\ n_calls[t] < MaxCalls
    /\ stream_id[s] # 0
    /\ n_calls' = [n_calls EXCEPT ![t] = @ + 1]
    /\ last_call' = [last_call EXCEPT ![t] = "open"]
    /\ OpenAsync(t, s)
    /\ UNCHANGED priceVars

(* session.py 400-404: the Session's events are replaced by new objects.  A *)
(* thread parked on the old login event stays parked on an object nobody   *)
(* holds ("orphaned"); one parked on the old stop event is parked on the   *)
(* connection's own stop event when that was the Session's                 *)
(* ("blocked_conn").                                                       *)
OnReplacedEvents ==
    [x \in DOMAIN wait |->
        IF x \in Callers /\ pc[x] = "o_login_wait" /\ wait[x] = "blocked" THEN "orphaned"
        ELSE IF x \in Callers /\ pc[x] = "s_stop_wait" /\ wait[x] = "blocked"
        THEN (IF conn_events_current THEN "blocked_conn" ELSE "orphaned")
        ELSE wait[x]]

(* session.py 396-420: Session._start_streaming up to the start signal *)
StartStreaming(t) ==
    /\ pc[t] = "o_start"
    /\ pc' = [pc EXCEPT ![t] = "o_login_wait"]
    /\ IF status \notin {"StreamConnected", "StreamPending"}
       THEN /\ status' = "StreamPending"
            /\ stop_streaming_event' = FALSE
            /\ login_event' = FALSE
            /\ is_closing' = FALSE
            /\ IF streaming_session = 0
               THEN \* StreamConnection(...).start()
                    /\ streaming_session_id' = streaming_session_id + 1
                    /\ streaming_session' = streaming_session_id + 1
                    /\ conn_state' = "CLOSED"
                    /\ ws_connected' = FALSE
                    /\ ws_is_logged' = FALSE
                    /\ ws_login_id' = 0
                    /\ conn_is_closing' = FALSE
                    /\ websocket' = FALSE
                    /\ conn_events_current' = TRUE
                    /\ conn_start_event' = FALSE
                    /\ conn_stop_event' = FALSE
                    /\ net_pc' = "n_loop"
                    /\ wait' = [OnReplacedEvents EXCEPT !["net"] = "run"]
               ELSE \* the connection keeps the events it was constructed with
                    /\ conn_events_current' = FALSE
                    /\ conn_start_event' = IF conn_events_current THEN FALSE ELSE conn_start_event
                    /\ conn_stop_event' = IF conn_events_current THEN FALSE ELSE conn_stop_event
                    /\ wait' = OnReplacedEvents
                    /\ UNCHANGED <<streaming_session_id, streaming_session, conn_state,
                                   ws_connected, ws_is_logged, ws_login_id, conn_is_closing,
                                   websocket, net_pc>>
       ELSE /\ wait' = [wait EXCEPT !["net"] =
                           IF conn_events_current /\ net_pc = "n_wait" /\ @ = "blocked"
                           THEN "woken" ELSE @]
            /\ UNCHANGED <<status, stop_streaming_event, login_event, is_closing,
                           streaming_session_id, streaming_session, conn_state, ws_connected,
                           ws_is_logged, ws_login_id, conn_is_closing, websocket,
                           conn_events_current, conn_start_event, conn_stop_event, net_pc>>
    /\ start_streaming_event' = TRUE
    /\ last' = Op("start_streaming", t, target[t], NoMsg, "none")
    /\ UNCHANGED <<session_state, event_log, state_log, net_tmp, sent, n_frames, net_exc>>
    /\ UNCHANGED <<regVars, streamVars, priceVars, target, result, last_call, ret, n_calls>>

(* session.py 422-427: wait for the login event *)
LoginWait(t) ==
    /\ pc[t] = "o_login_wait"
    /\ \/ /\ wait[t] = "run"
          /\ IF login_event
             THEN /\ pc' = [pc EXCEPT ![t] = "o_login_done"]
                  /\ UNCHANGED wait
             ELSE /\ wait' = [wait EXCEPT ![t] = "blocked"]
                  /\ UNCHANGED pc
       \/ /\ wait[t] = "woken"
          /\ wait' = [wait EXCEPT ![t] = "run"]
          /\ pc' = [pc EXCEPT ![t] = "o_login_done"]
    /\ last' = Op("login_wait", t, target[t], NoMsg, "none")
    /\ UNCHANGED <<sessVars, regVars, connVars, streamVars, priceVars,
                   target, result, last_call, ret, n_calls>>

(* session.py 429-430, 389-393: wait_for_streaming's result *)
WaitForStreamingEnd(t) ==
    /\ pc[t] = "o_login_done"
    /\ start_streaming_event' = FALSE
    /\ result' = [result EXCEPT ![t] = (status = "StreamConnected")]
    /\ pc' = [pc EXCEPT ![t] = "o_send"]
    /\ last' = Op("wait_for_streaming", t, target[t], NoMsg, "none")
    /\ UNCHANGED <<session_state, status, is_closing, login_event, stop_streaming_event,
                   streaming_session, event_log, state_log>>
    /\ UNCHANGED <<regVars, connVars, streamVars, priceVars,
                   target, wait, last_call, ret, n_calls>>

(* stream.py 138-173, had the subscribe frame been sent whatever            *)
(* wait_for_streaming returned                                             *)
OpenSendAlways(t) ==
    /\ pc[t] = "o_send"
    /\ sent' = Send(World, "Subscribe", stream_id[target[t]]).sent
    /\ pc' = [pc EXCEPT ![t] = "o_wait"]
    /\ last' = Op("open_send", t, target[t], NoMsg, "none")
    /\ UNCHANGED <<stream_state, ret>>
    /\ UNCHANGED <<streaming_session_id, conn_state, ws_connected, ws_is_logged, ws_login_id,
                   conn_is_closing, websocket, conn_events_current, conn_start_event,
                   conn_stop_event, net_pc, net_tmp, n_frames, net_exc>>
    /\ UNCHANGED <<response_event, code, message, cb, cb_arg>>
    /\ UNCHANGED <<sessVars, regVars, priceVars, target, wait, result, last_call, n_calls>>

(* stream.py 138-173: the subscribe frame, or Closed *)
OpenSend(t) ==
    /\ pc[t] = "o_send"
    /\ LET s == target[t]
       IN IF result[t]
          THEN /\ sent' = Send(World, "Subscribe", stream_id[s]).sent
               /\ pc' = [pc EXCEPT ![t] = "o_wait"]
               /\ last' = Op("open_send", t, s, NoMsg, "none")
               /\ UNCHANGED <<stream_state, ret>>
          ELSE /\ stream_state' = [stream_state EXCEPT ![s] = "Closed"]
               /\ Return(t, "Closed")
               /\ last' = Op("open", t, s, NoMsg, "none")
               /\ UNCHANGED sent
    /\ UNCHANGED <<streaming_session_id, conn_state, ws_connected, ws_is_logged, ws_login_id,
                   conn_is_closing, websocket, conn_events_current, conn_start_event,
                   conn_stop_event, net_pc, net_tmp, n_frames, net_exc>>
    /\ UNCHANGED <<response_event, code, message, cb, cb_arg>>
    /\ UNCHANGED <<sessVars, regVars, priceVars, target, wait, result, last_call, n_calls>>

(* stream.py 69-76: Stream._wait_for_response up to the end of wait() *)
WaitForResponse(t) ==
    /\ pc[t] = "o_wait"
    /\ LET s == target[t]
       IN \/ /\ wait[t] = "run"
             /\ IF stream_state[s] = "Open"
                THEN /\ pc' = [pc EXCEPT ![t] = "o_ret"]
                     /\ UNCHANGED wait
                ELSE IF response_event[s]
                THEN /\ pc' = [pc EXCEPT ![t] = "o_clear"]
                     /\ UNCHANGED wait
                ELSE /\ wait' = [wait EXCEPT ![t] = "blocked"]
                     /\ UNCHANGED pc
          \/ /\ wait[t] = "woken"
             /\ wait' = [wait EXCEPT ![t] = "run"]
             /\ pc' = [pc EXCEPT ![t] = "o_clear"]
    /\ last' = Op("wait_for_response", t, target[t], NoMsg, "none")
    /\ UNCHANGED <<sessVars, regVars, connVars, streamVars, priceVars,
                   target, result, last_call, ret, n_calls>>

(* stream.py 79 *)
WaitClear(t) ==
    /\ pc[t] = "o_clear"
    /\ response_event' = [response_event EXCEPT ![target[t]] = FALSE]
    /\ pc' = [pc EXCEPT ![t] = "o_ret"]
    /\ last' = Op("wait_clear", t, target[t], NoMsg, "none")
    /\ UNCHANGED <<stream_state, code, message, cb, cb_arg>>
    /\ UNCHANGED <<sessVars, regVars, connVars, priceVars,
                   target, wait, result, last_call, ret, n_calls>>

(* stream.py 169-176, 88-89 *)
OpenReturn(t) ==
    /\ pc[t] = "o_ret"
    /\ Return(t, stream_state[target[t]])
    /\ last' = Op("open", t, target[t], NoMsg, "none")
    /\ UNCHANGED <<sessVars, regVars, connVars, streamVars, priceVars,
                   target, wait, result, last_call, n_calls>>

(***************************************************************************)
(* ItemStream.close() over Stream.close(), by steps.                       *)
(***************************************************************************)
(* stream.py 95-107: the Close frame when the stream is Open *)
CloseStart(t, s) ==
    /\ target' = [target EXCEPT ![t] = s]
    /\ pc' = [pc EXCEPT ![t] = "c_set"]
    /\ sent' = IF stream_state[s] = "Open"
               THEN Send(World, "Close", stream_id[s]).sent ELSE sent
    /\ last' = Op("close_begin", t, s, NoMsg, "none")
    /\ UNCHANGED <<streaming_session_id, conn_state, ws_connected, ws_is_logged, ws_login_id,
                   conn_is_closing, websocket, conn_events_current, conn_start_event,
                   conn_stop_event, net_pc, net_tmp, n_frames, net_exc>>
    /\ UNCHANGED <<sessVars, regVars, streamVars, wait, result, ret>>

(* itemstream.py 274-279: close() called by the user *)
CloseBegin(t, s) ==
    /\ pc[t] = "idle"
    /\ n_calls[t] < MaxCalls
    /\ stream_id[s] # 0
    /\ n_calls' = [n_calls EXCEPT ![t] = @ + 1]
    /\ last_call' = [last_call EXCEPT ![t] = "close"]
    /\ CloseStart(t, s)
    /\ UNCHANGED priceVars

(* stream.py 108, had it been guarded like the Close frame above it *)
CloseSetStateIfOpen(t) ==
    /\ pc[t] = "c_set"
    /\ stream_state' = [stream_state EXCEPT ![target[t]] = IF @ = "Open" THEN "Closed" ELSE @]
    /\ pc' = [pc EXCEPT ![t] = "c_evset"]
    /\ last' = Op("close_set_state", t, target[t], NoMsg, "none")
    /\ UNCHANGED <<response_event, code, message, cb, cb_arg>>
    /\ UNCHANGED <<sessVars, regVars, connVars, priceVars,
                   target, wait, result, last_call, ret, n_calls>>

(* stream.py 108 *)
CloseSetState(t) ==
    /\ pc[t] = "c_set"
    /\ stream_state' = [stream_state EXCEPT ![target[t]] = "Closed"]
    /\ pc' = [pc EXCEPT ![t] = "c_evset"]
    /\ last' = Op("close_set_state", t, target[t], NoMsg, "none")
    /\ UNCHANGED <<response_event, code, message, cb, cb_arg>>
    /\ UNCHANGED <<sessVars, regVars, connVars, priceVars,
                   target, wait, result, last_call, ret, n_calls>>

(* stream.py 110 *)
CloseEventSet(t) ==
    /\ pc[t] = "c_evset"
    /\ response_event' = [response_event EXCEPT ![target[t]] = TRUE]
    /\ wait' = Notify(wait, {"o_wait"}, target[t])
    /\ pc' = [pc EXCEPT ![t] = "c_evclear"]
    /\ last' = Op("close_event_set", t, target[t], NoMsg, "none")
    /\ UNCHANGED <<stream_state, code, message, cb, cb_arg>>
    /\ UNCHANGED <<sessVars, regVars, connVars, priceVars,
                   target, result, last_call, ret, n_calls>>

(* stream.py 111-112 *)
CloseEventClear(t) ==
    /\ pc[t] = "c_evclear"
    /\ response_event' = [response_event EXCEPT ![target[t]] = FALSE]
    /\ pc' = [pc EXCEPT ![t] = "c_ret"]
    /\ last' = Op("close_event_clear", t, target[t], NoMsg, "none")
    /\ UNCHANGED <<stream_state, code, message, cb, cb_arg>>
    /\ UNCHANGED <<sessVars, regVars, connVars, priceVars,
                   target, wait, result, last_call, ret, n_calls>>

(* itemstream.py 280-282 *)
CloseReturn(t) ==
    /\ pc[t] = "c_ret"
    /\ code' = [code EXCEPT ![target[t]] = "Closed"]
    /\ message' = [message EXCEPT ![target[t]] = ""]
    /\ Return(t, stream_state[target[t]])
    /\ last' = Op("close", t, target[t], NoMsg, "none")
    /\ UNCHANGED <<stream_state, response_event, cb, cb_arg>>
    /\ UNCHANGED <<sessVars, regVars, connVars, priceVars,
                   target, wait, result, last_call, n_calls>>

(***************************************************************************)
(* Session.close() over Session._stop_streaming, by steps.                 *)
(***************************************************************************)
(* session.py 373-377: close() called by the user; the state is set first *)
SessionClose(t) ==
    /\ pc[t] = "idle"
    /\ n_calls[t] < MaxCalls
    /\ n_calls' = [n_calls EXCEPT ![t] = @ + 1]
    /\ last_call' = [last_call EXCEPT ![t] = "session_close"]
    /\ IF session_state = "Closed"
       THEN /\ ret' = [ret EXCEPT ![t] = "Closed"]
            /\ last' = Op("session_close", t, 0, NoMsg, "none")
            /\ UNCHANGED <<pc, session_state>>
       ELSE /\ session_state' = "Closed"
            /\ pc' = [pc EXCEPT ![t] = "s_flag"]
            /\ last' = Op("session_close_begin", t, 0, NoMsg, "none")
            /\ UNCHANGED ret
    /\ UNCHANGED <<status, is_closing, login_event, start_streaming_event,
                   stop_streaming_event, streaming_session, event_log, state_log>>
    /\ UNCHANGED <<regVars, connVars, streamVars, priceVars, target, wait, result>>

(* session.py 441-443: the closing flags of the Session and the connection *)
StopStreamingFlags(t) ==
    /\ pc[t] = "s_flag"
    /\ is_closing' = TRUE
    /\ conn_is_closing' = IF streaming_session # 0 THEN TRUE ELSE conn_is_closing
    /\ pc' = [pc EXCEPT ![t] = "s_login_set"]
    /\ last' = Op("stop_flags", t, 0, NoMsg, "none")
    /\ UNCHANGED <<session_state, status, login_event, start_streaming_event,
                   stop_streaming_event, streaming_session, event_log, state_log>>
    /\ UNCHANGED <<streaming_session_id, conn_state, ws_connected, ws_is_logged, ws_login_id,
                   websocket, conn_events_current, conn_start_event, conn_stop_event,
                   net_pc, net_tmp, sent, n_frames, net_exc>>
    /\ UNCHANGED <<regVars, streamVars, priceVars,
                   target, wait, result, last_call, ret, n_calls>>

(* session.py 446 *)
StopLoginEventSet(t) ==
    /\ pc[t] = "s_login_set"
    /\ login_event' = TRUE
    /\ wait' = NotifyAll(wait, {"o_login_wait"})
    /\ pc' = [pc EXCEPT ![t] = "s_login_clear"]
    /\ last' = Op("stop_login_set", t, 0, NoMsg, "none")
    /\ UNCHANGED <<session_state, status, is_closing, start_streaming_event,
                   stop_streaming_event, streaming_session, event_log, state_log>>
    /\ UNCHANGED <<regVars, connVars, streamVars, priceVars,
                   target, result, last_call, ret, n_calls>>

(* session.py 447 *)
StopLoginEventClear(t) ==
    /\ pc[t] = "s_login_clear"
    /\ login_event' = FALSE
    /\ pc' = [pc EXCEPT ![t] = "s_start_set"]
    /\ last' = Op("stop_login_clear", t, 0, NoMsg, "none")
    /\ UNCHANGED <<session_state, status, is_closing, start_streaming_event,
                   stop_streaming_event, streaming_session, event_log, state_log>>
    /\ UNCHANGED <<regVars, connVars, streamVars, priceVars,
                   target, wait, result, last_call, ret, n_calls>>

(* session.py 448-450: the Session's start event, which is the one the     *)
(* connection thread waits on unless it has been replaced                  *)
StopStartEventSet(t) ==
    /\ pc[t] = "s_start_set"
    /\ start_streaming_event' = TRUE
    /\ wait' = [wait EXCEPT !["net"] =
                   IF conn_events_current /\ net_pc = "n_wait" /\ @ = "blocked"
                   THEN "woken" ELSE @]
    /\ pc' = [pc EXCEPT ![t] = "s_conn_close"]
    /\ last' = Op("stop_start_set", t, 0, NoMsg, "none")
    /\ UNCHANGED <<session_state, status, is_closing, login_event,
                   stop_streaming_event, streaming_session, event_log, state_log>>
    /\ UNCHANGED <<regVars, connVars, streamVars, priceVars,
                   target, result, last_call, ret, n_calls>>

(* session.py 453-454 and stream_connection.py 177-194: StreamConnection.  *)
(* close() sends the Close of the login stream and asks the websocket to   *)
(* close, after which the library calls _ws_close on the connection thread *)
ConnectionClose(t) ==
    /\ pc[t] = "s_conn_close"
    /\ IF streaming_session # 0
       THEN /\ sent' = Send(World, "Close", ws_login_id).sent
            /\ pc' = [pc EXCEPT ![t] = "s_stop_wait"]
       ELSE /\ pc' = [pc EXCEPT ![t] = "s_status"]
            /\ UNCHANGED sent
    /\ last' = Op("connection_close", t, 0, NoMsg, "none")
    /\ UNCHANGED <<streaming_session_id, conn_state, ws_connected, ws_is_logged, ws_login_id,
                   conn_is_closing, websocket, conn_events_current, conn_start_event,
                   conn_stop_event, net_pc, net_tmp, n_frames, net_exc>>
    /\ UNCHANGED <<sessVars, regVars, streamVars, priceVars,
                   target, wait, result, last_call, ret, n_calls>>

(* session.py 455: wait() on the Session's stop event *)
StopStreamingWait(t) ==
    /\ pc[t] = "s_stop_wait"
    /\ \/ /\ wait[t] = "run"
          /\ IF stop_streaming_event
             THEN /\ pc' = [pc EXCEPT ![t] = "s_del"]
                  /\ UNCHANGED wait
             ELSE /\ wait' = [wait EXCEPT ![t] = "blocked"]
                  /\ UNCHANGED pc
       \/ /\ wait[t] = "woken"
          /\ wait' = [wait EXCEPT ![t] = "run"]
          /\ pc' = [pc EXCEPT ![t] = "s_del"]
    /\ last' = Op("stop_wait", t, 0, NoMsg, "none")
    /\ UNCHANGED <<sessVars, regVars, connVars, streamVars, priceVars,
                   target, result, last_call, ret, n_calls>>

(* session.py 457-459 and 381: the connection is dropped, the status is    *)
(* set without a call of _on_event, and close() returns the state          *)
SessionCloseReturn(t) ==
    /\ pc[t] \in {"s_del", "s_status"}
    /\ streaming_session' = IF pc[t] = "s_del" THEN 0 ELSE streaming_session
    /\ status' = "StreamDisconnected"
    /\ pc' = [pc EXCEPT ![t] = "idle"]
    /\ ret' = [ret EXCEPT ![t] = session_state]
    /\ last' = Op("session_close", t, 0, NoMsg, "none")
    /\ UNCHANGED <<session_state, is_closing, login_event, start_streaming_event,
                   stop_streaming_event, event_log, state_log>>
    /\ UNCHANGED <<regVars, connVars, streamVars, priceVars,
                   target, wait, result, last_call, n_calls>>

(***************************************************************************)
(* The network thread: StreamConnection.run and the websocket callbacks.   *)
(* What run_forever does between callbacks is the websocket library's: the *)
(* socket opens or fails, delivers frames, fails or is closed by the       *)
(* server, and on_close follows on_error.                                  *)
(***************************************************************************)
(* The variables no websocket callback assigns. *)
CallbackFrame ==
    /\ UNCHANGED <<session_state, is_closing, start_streaming_event, streaming_session,
                   state_log>>
    /\ UNCHANGED <<streaming_session_id, conn_events_current, conn_start_event, net_tmp>>
    /\ UNCHANGED <<prices_state, universe, snapshot, agg_caller, agg_todo>>
    /\ UNCHANGED <<pc, target, result, last_call, ret, n_calls>>

(* the registry lock is free: no caller is inside _register_stream *)
RegisterLockFree == \A t \in Callers : pc[t] \notin {"r_store", "r_end"}

(* stream_connection.py 156-158 *)
RunWait ==
    /\ \/ /\ net_pc = "n_loop"
          /\ IF conn_is_closing
             THEN net_pc' = "n_end" /\ UNCHANGED wait
             ELSE IF ConnStartFlag
             THEN net_pc' = "n_check" /\ UNCHANGED wait
             ELSE net_pc' = "n_wait" /\ wait' = [wait EXCEPT !["net"] = "blocked"]
       \/ /\ net_pc = "n_wait"
          /\ wait["net"] = "woken"
          /\ net_pc' = "n_check"
          /\ wait' = [wait EXCEPT !["net"] = "run"]
    /\ last' = Op("run_wait", "net", 0, NoMsg, "none")
    /\ UNCHANGED <<streaming_session_id, conn_state, ws_connected, ws_is_logged, ws_login_id,
                   conn_is_closing, websocket, conn_events_current, conn_start_event,
                   conn_stop_event, net_tmp, sent, n_frames, net_exc>>
    /\ UNCHANGED <<sessVars, regVars, streamVars, priceVars,
                   pc, target, result, last_call, ret, n_calls>>

(* stream_connection.py 159-171 *)
RunConnect ==
    /\ net_pc = "n_check"
    /\ IF conn_is_closing
       THEN /\ net_pc' = "n_loop"
            /\ UNCHANGED <<websocket, conn_state>>
       ELSE /\ websocket' = TRUE
            /\ conn_state' = "PENDING"
            /\ net_pc' = "n_connecting"
    /\ last' = Op("run_connect", "net", 0, NoMsg, "none")
    /\ UNCHANGED <<streaming_session_id, ws_connected, ws_is_logged, ws_login_id,
                   conn_is_closing, conn_events_current, conn_start_event,
                   conn_stop_event, net_tmp, sent, n_frames, net_exc>>
    /\ UNCHANGED <<sessVars, regVars, streamVars, priceVars, callerVars>>

(* stream_connection.py 210-220 and session.py 465, up to the read of      *)
(* _id_request in "self._id_request += 1"                                   *)
WsOpen ==
    /\ net_pc = "n_connecting"
    /\ id_request < MaxId
    /\ Commit(SessionOnEvent(World, streaming_session_id, "StreamConnected", "ws_open"))
    /\ ws_connected' = TRUE
    /\ net_tmp' = id_request
    /\ net_pc' = "n_open_store"
    /\ last' = Op("ws_open", "net", 0, NoMsg, "none")
    /\ UNCHANGED <<session_state, is_closing, start_streaming_event, stop_streaming_event,
                   streaming_session, state_log>>
    /\ UNCHANGED <<streaming_session_id, ws_login_id, conn_is_closing, websocket,
                   conn_events_current, conn_start_event, conn_stop_event, n_frames>>
    /\ UNCHANGED <<regVars, prices_state, universe, snapshot, agg_caller, agg_todo,
                   pc, target, result, last_call, ret, n_calls>>

(* session.py 465: the write of "self._id_request += 1" *)
WsOpenStoreId ==
    /\ net_pc = "n_open_store"
    /\ id_request' = net_tmp + 1
    /\ net_pc' = "n_open_ret"
    /\ last' = Op("ws_open_store_id", "net", 0, NoMsg, "none")
    /\ UNCHANGED <<reg_tmp, all_stream_subscriptions, stream_id>>
    /\ UNCHANGED <<streaming_session_id, conn_state, ws_connected, ws_is_logged, ws_login_id,
                   conn_is_closing, websocket, conn_events_current, conn_start_event,
                   conn_stop_event, net_tmp, sent, n_frames, net_exc>>
    /\ UNCHANGED <<sessVars, streamVars, priceVars, callerVars>>

(* session.py 466 "return self._id_request", stream_connection.py 220-222 *)
WsOpenLogin ==
    /\ net_pc = "n_open_ret"
    /\ ws_login_id' = id_request
    /\ sent' = Send(World, "Login", id_request).sent
    /\ net_pc' = "n_running"
    /\ last' = Op("ws_open_login", "net", 0, NoMsg, "none")
    /\ UNCHANGED <<streaming_session_id, conn_state, ws_connected, ws_is_logged,
                   conn_is_closing, websocket, conn_events_current, conn_start_event,
                   conn_stop_event, net_tmp, n_frames, net_exc>>
    /\ UNCHANGED <<sessVars, regVars, streamVars, priceVars, callerVars>>

(* one of the callbacks of the kinds R was called between w0 and w1 *)
CallbackRaised(w0, w1, R) == \E s \in Streams, k \in R : w1.cb[s][k] > w0.cb[s][k]

(* stream_connection.py 245-248, 280-285: one frame, a list of messages.   *)
(* R: the kinds of user callback that raise during this frame; the frame   *)
(* is recorded as "ws_message_raised" when one of them was called.         *)
WsMessageRaising(ms, R) ==
    /\ net_pc = "n_running"
    /\ RegisterLockFree
    /\ n_frames' = n_frames + 1
    /\ LET w == OnMessage([World EXCEPT !.raising = R], ms)
       IN /\ Commit(w)
          /\ last' = Op(IF CallbackRaised(World, w, R) THEN "ws_message_raised"
                        ELSE "ws_message",
                        "net", GetStream(ms[1].ID), ms[1], w.exc)
    /\ CallbackFrame
    /\ UNCHANGED <<stop_streaming_event, ws_connected, ws_login_id, conn_is_closing,
                   websocket, conn_stop_event, net_pc>>
    /\ UNCHANGED regVars

(* a frame during which every user callback returns *)
WsMessage(ms) == WsMessageRaising(ms, {})

(* threading.Event.set() on the stop event the connection holds: the      *)
(* threads parked on that object are notified                              *)
NotifyStop(w) ==
    [w EXCEPT !.wait =
        [t \in DOMAIN @ |->
            IF /\ t \in Callers
               /\ pc[t] = "s_stop_wait"
               /\ @[t] = (IF conn_events_current THEN "blocked" ELSE "blocked_conn")
            THEN "woken" ELSE @[t]]]

(* threading.Event.set() on the stop event the connection holds: its flag *)
SetStopEvent ==
    IF conn_events_current
    THEN stop_streaming_event' = TRUE /\ UNCHANGED conn_stop_event
    ELSE conn_stop_event' = TRUE /\ UNCHANGED stop_streaming_event

(* _ws_error, had it not set is_closing *)
WsErrorNotClosing ==
    /\ net_pc \in {"n_connecting", "n_running"}
    /\ Commit(NotifyStop(SessionOnEvent([World EXCEPT !.ws_is_logged = FALSE,
                                                      !.conn_state = "CLOSED"],
                                        streaming_session_id, "StreamDisconnected", "ws_error")))
    /\ ws_connected' = FALSE
    /\ ws_login_id' = 0
    /\ SetStopEvent
    /\ UNCHANGED conn_is_closing
    /\ net_pc' = "n_teardown"
    /\ last' = Op("ws_error", "net", 0, NoMsg, "none")
    /\ CallbackFrame
    /\ UNCHANGED <<websocket, n_frames>>
    /\ UNCHANGED regVars

(* stream_connection.py 225-243 *)
WsError ==
    /\ net_pc \in {"n_connecting", "n_running"}
    /\ Commit(NotifyStop(SessionOnEvent([World EXCEPT !.ws_is_logged = FALSE,
                                                      !.conn_state = "CLOSED"],
                                        streaming_session_id, "StreamDisconnected", "ws_error")))
    /\ ws_connected' = FALSE
    /\ ws_login_id' = 0
    /\ SetStopEvent
    /\ conn_is_closing' = TRUE
    /\ net_pc' = "n_teardown"
    /\ last' = Op("ws_error", "net", 0, NoMsg, "none")
    /\ CallbackFrame
    /\ UNCHANGED <<websocket, n_frames>>
    /\ UNCHANGED regVars

(* _ws_close, had it set is_closing as _ws_error does *)
WsCloseClosing ==
    /\ net_pc \in {"n_running", "n_teardown"}
    /\ Commit(NotifyStop(SessionOnEvent([World EXCEPT !.ws_is_logged = FALSE,
                                                      !.conn_state = "CLOSED"],
                                        streaming_session_id, "StreamDisconnected", "ws_close")))
    /\ ws_connected' = FALSE
    /\ ws_login_id' = 0
    /\ SetStopEvent
    /\ websocket' = FALSE
    /\ net_pc' = "n_loop"
    /\ last' = Op("ws_close", "net", 0, NoMsg, "none")
    /\ CallbackFrame
    /\ conn_is_closing' = TRUE
    /\ UNCHANGED n_frames
    /\ UNCHANGED regVars

(* stream_connection.py 250-264, then 172 *)
WsClose ==
    /\ net_pc \in {"n_running", "n_teardown"}
    /\ Commit(NotifyStop(SessionOnEvent([World EXCEPT !.ws_is_logged = FALSE,
                                                      !.conn_state = "CLOSED"],
                                        streaming_session_id, "StreamDisconnected", "ws_close")))
    /\ ws_connected' = FALSE
    /\ ws_login_id' = 0
    /\ SetStopEvent
    /\ websocket' = FALSE
    /\ net_pc' = "n_loop"
    /\ last' = Op("ws_close", "net", 0, NoMsg, "none")
    /\ CallbackFrame
    /\ UNCHANGED <<conn_is_closing, n_frames>>
    /\ UNCHANGED regVars

(***************************************************************************)
(* Inbound messages.                                                       *)
(***************************************************************************)
LoginOk(id) == Msg("Refresh", id, "Login", TRUE, "Open", "Ok", "absent", FALSE, EmptyMap)
LoginFailed(id) == Msg("Refresh", id, "Login", TRUE, "Closed", "Suspect", "absent", FALSE, EmptyMap)
LoginResponse(type, id, stream, data) ==
    Msg(type, id, "Login", TRUE, stream, data, "absent", FALSE, EmptyMap)
Refresh(id, complete, fields) ==
    Msg("Refresh", id, "MarketPrice", TRUE, "Open", "Ok", complete, TRUE, fields)
RefreshNoState(id, fields) ==
    Msg("Refresh", id, "absent", FALSE, "None", "None", "true", TRUE, fields)
Update(id, fields) ==
    Msg("Update", id, "absent", FALSE, "None", "None", "absent", TRUE, fields)
Status(id, stream) ==
    Msg("Status", id, "absent", TRUE, stream, "Suspect", "absent", FALSE, EmptyMap)
StatusNoState(id) ==
    Msg("Status", id, "absent", FALSE, "None", "None", "absent", FALSE, EmptyMap)
Error(id) == Msg("Error", id, "absent", FALSE, "None", "None", "absent", FALSE, EmptyMap)
Ping == Msg("Ping", 0, "absent", FALSE, "None", "None", "absent", FALSE, EmptyMap)

(* Ids of the frames of Spec: stream 1's, the login id that the first      *)
(* connection draws after it, and one that is never registered.            *)
StreamOneId == 1
FirstLoginId == 2
UnknownId == MaxId + 1
BidOne == [f \in {"BID"} |-> 1]

UnknownIdMessages ==
    {Refresh(UnknownId, "true", BidOne), RefreshNoState(UnknownId, BidOne),
     Update(UnknownId, BidOne), Status(UnknownId, "Open"), StatusNoState(UnknownId),
     Error(UnknownId)}

SpecMessages ==
    {LoginOk(FirstLoginId), LoginFailed(FirstLoginId),
     LoginResponse("Status", FirstLoginId, "Open", "Ok"),
     LoginResponse("Status", FirstLoginId, "Open", "Suspect"),
     LoginResponse("Refresh", FirstLoginId, "Closed", "Ok"),
     Refresh(StreamOneId, "true", BidOne), Refresh(StreamOneId, "false", BidOne),
     Refresh(StreamOneId, "absent", BidOne),
     RefreshNoState(StreamOneId, BidOne), Update(StreamOneId, BidOne),
     Status(StreamOneId, "Open"), Status(StreamOneId, "Closed"), StatusNoState(StreamOneId),
     Error(StreamOneId), Error(FirstLoginId), Ping}
    \cup UnknownIdMessages

(***************************************************************************)
(* Spec: a Session with one ItemStream, one caller thread calling open()   *)
(* and close() on it, and the connection thread.                           *)
(***************************************************************************)
(* one frame of one message, within the bound of Spec *)
SpecFrame(m) == n_frames < MaxFrames /\ WsMessage(<<m>>)

CallerStep ==
    \E t \in {"t1"} :
        \/ \E found \in BOOLEAN : SessionOpen(t, found)
        \/ OpenBegin(t, 1)
        \/ StartStreaming(t)
        \/ LoginWait(t)
        \/ WaitForStreamingEnd(t)
        \/ OpenSend(t)
        \/ WaitForResponse(t)
        \/ WaitClear(t)
        \/ OpenReturn(t)
        \/ CloseBegin(t, 1)
        \/ CloseSetState(t)
        \/ CloseEventSet(t)
        \/ CloseEventClear(t)
        \/ CloseReturn(t)

NetStep ==
    \/ RunWait
    \/ RunConnect
    \/ WsOpen
    \/ WsOpenStoreId
    \/ WsOpenLogin
    \/ \E m \in SpecMessages : SpecFrame(m)
    \/ WsError
    \/ WsClose

Next == CallerStep \/ NetStep

Spec == Init /\ [][Next]_vars

(***************************************************************************)
(* SpecRace: the same Session and ItemStream with two caller threads, t1   *)
(* calling open() and t2 calling close() while a thread is inside open()   *)
(* with its subscribe frame sent and no response received.                 *)
(***************************************************************************)
OpenWaitsFirstResponse(s) ==
    \E o \in Callers : /\ pc[o] = "o_wait"
                       /\ target[o] = s
                       /\ wait[o] # "woken"
                       /\ ~response_event[s]

CloseDuringOpen(t, s) == OpenWaitsFirstResponse(s) /\ CloseBegin(t, s)

RaceMessages == {LoginOk(FirstLoginId), Refresh(StreamOneId, "true", BidOne)}

OpenerStep(t) ==
    \/ \E found \in BOOLEAN : SessionOpen(t, found)
    \/ OpenBegin(t, 1)
    \/ StartStreaming(t)
    \/ LoginWait(t)
    \/ WaitForStreamingEnd(t)
    \/ OpenSend(t)
    \/ WaitForResponse(t)
    \/ WaitClear(t)
    \/ OpenReturn(t)

CloserStep(t) ==
    \/ CloseDuringOpen(t, 1)
    \/ CloseSetState(t)
    \/ CloseEventSet(t)
    \/ CloseEventClear(t)
    \/ CloseReturn(t)

NextRace ==
    \/ OpenerStep("t1")
    \/ CloserStep("t2")
    \/ RunWait
    \/ RunConnect
    \/ WsOpen
    \/ WsOpenStoreId
    \/ WsOpenLogin
    \/ \E m \in RaceMessages : SpecFrame(m)
    \/ WsError
    \/ WsClose

SpecRace == Init /\ [][NextRace]_vars

(***************************************************************************)
(* SpecClose: the same Session and ItemStream, thread t1 opening the       *)
(* Session and the stream, thread t2 calling Session.close(), and the      *)
(* connection thread.                                                      *)
(***************************************************************************)
(* t1: DesktopSession.open() and open() on the stream *)
SessionOpenerStep(t) ==
    \/ SessionOpen(t, TRUE)
    \/ (n_calls[t] < MaxOpens /\ OpenBegin(t, 1))
    \/ StartStreaming(t)
    \/ LoginWait(t)
    \/ WaitForStreamingEnd(t)
    \/ OpenSend(t)
    \/ WaitForResponse(t)
    \/ WaitClear(t)
    \/ OpenReturn(t)

(* t2: Session.close() *)
SessionCloserStep(t) ==
    \/ (n_calls[t] < MaxCloses /\ SessionClose(t))
    \/ StopStreamingFlags(t)
    \/ StopLoginEventSet(t)
    \/ StopLoginEventClear(t)
    \/ StopStartEventSet(t)
    \/ ConnectionClose(t)
    \/ StopStreamingWait(t)
    \/ SessionCloseReturn(t)

NextClose ==
    \/ SessionOpenerStep("t1")
    \/ SessionCloserStep("t2")
    \/ RunWait
    \/ RunConnect
    \/ WsOpen
    \/ WsOpenStoreId
    \/ WsOpenLogin
    \/ \E m \in RaceMessages : SpecFrame(m)
    \/ WsError
    \/ WsClose

SpecClose == Init /\ [][NextClose]_vars

(***************************************************************************)
(* SpecLock: SpecRace with ItemStream._on_refresh followed read by read    *)
(* and write by write.  The handler holds the ItemStream's and the         *)
(* Stream's locks; Stream.close() takes neither, so its steps fall between *)
(* the handler's.  The socket stays up.                                    *)
(***************************************************************************)
LockRefresh == Refresh(StreamOneId, "true", BidOne)

(* One step of the connection thread inside the handler, from one of its   *)
(* positions to the next, leaving the state as the world record w says.    *)
HandlerStep(from, to, w, op) ==
    /\ net_pc = from
    /\ net_pc' = to
    /\ n_frames' = IF from = "n_running" THEN n_frames + 1 ELSE n_frames
    /\ Commit(w)
    /\ last' = Op(op, "net", GetStream(LockRefresh.ID), LockRefresh, "none")
    /\ CallbackFrame
    /\ UNCHANGED <<stop_streaming_event, ws_connected, ws_login_id, conn_is_closing,
                   websocket, conn_stop_event>>
    /\ UNCHANGED regVars

OnRefreshByStepsUpTo(max) ==
    LET s == GetStream(LockRefresh.ID)
    IN  \* stream_connection.py 245-248, 385-386, itemstream.py 308-313: the
        \* frame reaches the stream's handler, which stores code and message
        \* and reads the state for "if self.state == StreamState.Pending"
        \/ /\ n_frames < max
           /\ RegisterLockFree
           /\ ~is_closing
           /\ s # 0
           /\ HandlerStep("n_running",
                          IF stream_state[s] = "Pending" THEN "h_stream_state"
                          ELSE "h_open_test",
                          [World EXCEPT !.code[s] = LockRefresh.Stream,
                                        !.message[s] = "Text"],
                          "on_refresh_enter")
        \* itemstream.py 314, 383-391: self._on_stream_state(StreamState.Open)
        \/ HandlerStep("h_stream_state", "h_open_test",
                       ItemOnStreamState(World, s, "Open", LockRefresh),
                       "on_refresh_stream_state")
        \* stream.py 183: the read of "if self._state in [Pending, Open]"
        \/ HandlerStep("h_open_test",
                       IF stream_state[s] \in {"Pending", "Open"} THEN "h_open_set"
                       ELSE "h_event",
                       World, "on_refresh_open_test")
        \* stream.py 185: self._state = StreamState.Open
        \/ HandlerStep("h_open_set", "h_event",
                       [World EXCEPT !.stream_state[s] = "Open"], "on_refresh_open_set")
        \* stream.py 187-188: the response event is set
        \/ HandlerStep("h_event", "h_callback", SetResponseEvent(World, s),
                       "on_refresh_event_set")
        \* itemstream.py 317-324: the user's refresh callback unless Closed
        \/ HandlerStep("h_callback", "h_complete",
                       IF stream_state[s] # "Closed"
                       THEN Callback(World, s, "refresh", LockRefresh) ELSE World,
                       "on_refresh_callback")
        \* stream_connection.py 388-392, itemstream.py 358-368: _on_complete,
        \* and the frame is done
        \/ HandlerStep("h_complete", "n_running", ItemOnComplete(World, s, LockRefresh),
                       "ws_message")

OnRefreshBySteps == OnRefreshByStepsUpTo(MaxFrames)

NextLock ==
    \/ SessionOpenerStep("t1")
    \/ CloserStep("t2")
    \/ RunWait
    \/ RunConnect
    \/ WsOpen
    \/ WsOpenStoreId
    \/ WsOpenLogin
    \/ SpecFrame(LoginOk(FirstLoginId))
    \/ OnRefreshBySteps

SpecLock == Init /\ [][NextLock]_vars

(* The locks the connection thread holds at each of its positions inside   *)
(* the handler: stream_connection.py 245-246 takes _ws_lock for the whole  *)
(* frame, itemstream.py 307 the item stream's lock for _on_refresh up to   *)
(* the user's callback, stream.py 182 the stream's lock for the base       *)
(* handler.                                                                *)
NetLocks ==
    (IF net_pc \in {"h_stream_state", "h_open_test", "h_open_set", "h_event",
                    "h_callback", "h_stop_wait", "h_complete"}
     THEN {"ws_lock"} ELSE {})
    \cup (IF net_pc \in {"h_stream_state", "h_open_test", "h_open_set", "h_event",
                         "h_callback", "h_stop_wait"}
          THEN {"item_stream_lock"} ELSE {})
    \cup (IF net_pc \in {"h_open_test", "h_open_set", "h_event"}
          THEN {"stream_lock"} ELSE {})

(* itemstream.py 317-324 with a refresh callback of the user that calls    *)
(* Session.close() (session.py 374-381, 439-459) on the connection thread: *)
(* the flags, the login event, the start event and the Close of the login  *)
(* stream, then wait() on the stop event that only _ws_error and _ws_close *)
(* set, both of which run on this same thread.                             *)
CallbackSessionClose ==
    LET s == GetStream(LockRefresh.ID)
        closes == session_state # "Closed"
        parks == closes /\ streaming_session # 0 /\ ~stop_streaming_event
        w0 == Callback(World, s, "refresh", LockRefresh)
        w1 == IF closes
              THEN [w0 EXCEPT !.login_event = FALSE,
                              !.wait = NotifyAll(@, {"o_login_wait"})]
              ELSE w0
        w2 == IF closes /\ streaming_session # 0
              THEN Send(w1, "Close", ws_login_id)
              ELSE w1
        w3 == [w2 EXCEPT !.wait["net"] = IF parks THEN "blocked" ELSE @,
                         !.status = IF closes /\ ~parks THEN "StreamDisconnected"
                                    ELSE @]
    IN  /\ net_pc = "h_callback"
        /\ s # 0
        /\ stream_state[s] # "Closed"
        /\ net_pc' = IF parks THEN "h_stop_wait" ELSE "h_complete"
        /\ Commit(w3)
        /\ session_state' = "Closed"
        /\ is_closing' = (is_closing \/ closes)
        /\ conn_is_closing' = (conn_is_closing \/ (closes /\ streaming_session # 0))
        /\ start_streaming_event' = (start_streaming_event \/ closes)
        /\ streaming_session' = IF closes /\ ~parks THEN 0 ELSE streaming_session
        /\ last' = Op("callback_session_close", "net", s, LockRefresh, "none")
        /\ UNCHANGED <<stop_streaming_event, state_log>>
        /\ UNCHANGED <<streaming_session_id, ws_connected, ws_login_id, websocket,
                       conn_events_current, conn_start_event, conn_stop_event,
                       net_tmp, n_frames>>
        /\ UNCHANGED <<prices_state, universe, snapshot, agg_caller, agg_todo>>
        /\ UNCHANGED <<pc, target, result, last_call, ret, n_calls>>
        /\ UNCHANGED regVars

NextReenter ==
    \/ NextLock
    \/ CallbackSessionClose

SpecReenter == Init /\ [][NextReenter]_vars


(***************************************************************************)
(* SpecCycle: the Session and ItemStream of Spec over several open cycles  *)
(* of the stream: one caller thread calling open() and close(), and a      *)
(* server that answers the login and sends refresh, status and error       *)
(* messages for the stream once a subscribe frame for it has been sent.    *)
(***************************************************************************)
CycleMessages ==
    {LoginOk(FirstLoginId), Refresh(StreamOneId, "true", BidOne), Error(StreamOneId)}
    \cup {Status(StreamOneId, st) : st \in TerminalStreamStatus \cup {"Open", "Suspect"}}

Subscribed(id) == \E i \in DOMAIN sent : sent[i] = [kind |-> "Subscribe", id |-> id]

CycleFrame(m) ==
    /\ n_frames < MaxCycleFrames
    /\ m.ID = StreamOneId => Subscribed(StreamOneId)
    /\ WsMessage(<<m>>)

NextCycle ==
    \/ CallerStep
    \/ RunWait
    \/ RunConnect
    \/ WsOpen
    \/ WsOpenStoreId
    \/ WsOpenLogin
    \/ \E m \in CycleMessages : CycleFrame(m)
    \/ WsError
    \/ WsClose

SpecCycle == Init /\ [][NextCycle]_vars

(***************************************************************************)
(* SpecCallbacks: the Session of Spec with two ItemStreams, one caller     *)
(* thread opening them one after the other, and a server whose frames      *)
(* carry one or two messages for the streams subscribed so far and whose   *)
(* connection stays up.  During a frame the user's callbacks of some kinds *)
(* raise an exception.                                                     *)
(***************************************************************************)
(* two ItemStreams constructed in turn, then the login id *)
StreamTwoId == StreamOneId + 1
SecondLoginId == StreamTwoId + 1

InitCallbacks ==
    /\ InitSession /\ InitConnection /\ InitStreams /\ InitCallers /\ NoPrices
    /\ Registered(StreamTwoId)

StreamOneMessages ==
    {Refresh(StreamOneId, "true", BidOne), Update(StreamOneId, BidOne),
     Status(StreamOneId, "Closed"), Error(StreamOneId)}

CallbackMessages == StreamOneMessages \cup {Refresh(StreamTwoId, "true", BidOne)}

(* the login response alone, one message for a stream, or a message for   *)
(* stream 1 followed by a second message                                   *)
CallbackFrames ==
    {<<LoginOk(SecondLoginId)>>}
    \cup {<<m>> : m \in CallbackMessages}
    \cup {<<m1, m2>> : m1 \in StreamOneMessages, m2 \in CallbackMessages}

(* the callbacks that raise during one frame: none, one kind, or all *)
RaisingSets == {{}} \cup {{k} : k \in CbKinds} \cup {CbKinds}

RaisingFrame(ms, R) ==
    /\ n_frames < MaxCallbackFrames
    /\ \A i \in DOMAIN ms : ms[i].ID \in {StreamOneId, StreamTwoId} => Subscribed(ms[i].ID)
    /\ WsMessageRaising(ms, R)

CallbackCallerStep(t) ==
    \/ SessionOpen(t, TRUE)
    \/ \E s \in {1, 2} : OpenBegin(t, s)
    \/ StartStreaming(t)
    \/ LoginWait(t)
    \/ WaitForStreamingEnd(t)
    \/ OpenSend(t)
    \/ WaitForResponse(t)
    \/ WaitClear(t)
    \/ OpenReturn(t)

NextCallbacks ==
    \/ CallbackCallerStep("t1")
    \/ RunWait
    \/ RunConnect
    \/ WsOpen
    \/ WsOpenStoreId
    \/ WsOpenLogin
    \/ \E ms \in CallbackFrames, R \in RaisingSets : RaisingFrame(ms, R)

SpecCallbacks == InitCallbacks /\ [][NextCallbacks]_vars

(***************************************************************************)
(* Session._register_stream and _unregister_stream.  Both run under the    *)
(* registry lock; _get_new_id inside _register_stream is a read, a write   *)
(* and a second read of _id_request, which the connection thread's call of *)
(* _get_new_id in _ws_open (outside the lock) can interleave with.         *)
(***************************************************************************)
(* session.py 469-476, 465 up to the read in "self._id_request += 1",      *)
(* had the two checks on the stream's id not been made                     *)
RegisterStreamUnchecked(t, s) ==
    /\ pc[t] = "idle"
    /\ n_calls[t] < MaxRegistryOps
    /\ id_request < MaxId
    /\ RegisterLockFree
    /\ n_calls' = [n_calls EXCEPT ![t] = @ + 1]
    /\ last_call' = [last_call EXCEPT ![t] = "register"]
    /\ target' = [target EXCEPT ![t] = s]
    /\ reg_tmp' = id_request
    /\ pc' = [pc EXCEPT ![t] = "r_store"]
    /\ last' = Op("register", t, s, NoMsg, "none")
    /\ UNCHANGED <<id_request, all_stream_subscriptions, stream_id, ret>>
    /\ UNCHANGED <<sessVars, connVars, streamVars, priceVars, wait, result>>

(* session.py 469-476, 465 up to the read in "self._id_request += 1" *)
RegisterStream(t, s) ==
    /\ pc[t] = "idle"
    /\ n_calls[t] < MaxRegistryOps
    /\ id_request < MaxId
    /\ RegisterLockFree
    /\ n_calls' = [n_calls EXCEPT ![t] = @ + 1]
    /\ last_call' = [last_call EXCEPT ![t] = "register"]
    /\ target' = [target EXCEPT ![t] = s]
    /\ IF stream_id[s] \in DOMAIN all_stream_subscriptions \/ stream_id[s] # 0
       THEN /\ Return(t, "EikonError")
            /\ last' = Op("register", t, s, NoMsg, "EikonError")
            /\ UNCHANGED reg_tmp
       ELSE /\ reg_tmp' = id_request
            /\ pc' = [pc EXCEPT ![t] = "r_store"]
            /\ last' = Op("register", t, s, NoMsg, "none")
            /\ UNCHANGED ret
    /\ UNCHANGED <<id_request, all_stream_subscriptions, stream_id>>
    /\ UNCHANGED <<sessVars, connVars, streamVars, priceVars, wait, result>>

(* session.py 465: the write of "self._id_request += 1" *)
RegisterStoreId(t) ==
    /\ pc[t] = "r_store"
    /\ id_request' = reg_tmp + 1
    /\ pc' = [pc EXCEPT ![t] = "r_end"]
    /\ last' = Op("register_store_id", t, target[t], NoMsg, "none")
    /\ UNCHANGED <<reg_tmp, all_stream_subscriptions, stream_id>>
    /\ UNCHANGED <<sessVars, connVars, streamVars, priceVars,
                   target, wait, result, last_call, ret, n_calls>>

(* session.py 466 "return self._id_request", 477-478 *)
RegisterInsert(t) ==
    /\ pc[t] = "r_end"
    /\ stream_id' = [stream_id EXCEPT ![target[t]] = id_request]
    /\ all_stream_subscriptions' =
          [k \in DOMAIN all_stream_subscriptions \cup {id_request} |->
              IF k = id_request THEN target[t] ELSE all_stream_subscriptions[k]]
    /\ Return(t, "None")
    /\ last' = Op("register_insert", t, target[t], NoMsg, "none")
    /\ UNCHANGED <<id_request, reg_tmp>>
    /\ UNCHANGED <<sessVars, connVars, streamVars, priceVars,
                   target, wait, result, last_call, n_calls>>

(* session.py 480-490 *)
UnregisterStream(t, s) ==
    /\ pc[t] = "idle"
    /\ n_calls[t] < MaxRegistryOps
    /\ RegisterLockFree
    /\ n_calls' = [n_calls EXCEPT ![t] = @ + 1]
    /\ last_call' = [last_call EXCEPT ![t] = "unregister"]
    /\ target' = [target EXCEPT ![t] = s]
    /\ IF stream_id[s] = 0 \/ stream_id[s] \notin DOMAIN all_stream_subscriptions
       THEN /\ Return(t, "EikonError")
            /\ last' = Op("unregister", t, s, NoMsg, "EikonError")
            /\ UNCHANGED <<all_stream_subscriptions, stream_id>>
       ELSE /\ all_stream_subscriptions' =
                  [k \in DOMAIN all_stream_subscriptions \ {stream_id[s]} |->
                      all_stream_subscriptions[k]]
            /\ stream_id' = [stream_id EXCEPT ![s] = 0]
            /\ Return(t, "None")
            /\ last' = Op("unregister", t, s, NoMsg, "none")
    /\ UNCHANGED <<id_request, reg_tmp>>
    /\ UNCHANGED <<sessVars, connVars, streamVars, priceVars, wait, result>>

(***************************************************************************)
(* SpecRegistry: t2 registers and unregisters streams while t1's open()    *)
(* starts the connection, whose thread draws the login id in _ws_open.     *)
(***************************************************************************)
NextRegistry ==
    \/ \E s \in Streams : RegisterStream("t2", s)
    \/ RegisterStoreId("t2")
    \/ RegisterInsert("t2")
    \/ \E s \in Streams : UnregisterStream("t2", s)
    \/ \E found \in BOOLEAN : SessionOpen("t1", found)
    \/ OpenBegin("t1", 1)
    \/ StartStreaming("t1")
    \/ LoginWait("t1")
    \/ RunWait
    \/ RunConnect
    \/ WsOpen
    \/ WsOpenStoreId
    \/ WsOpenLogin

SpecRegistry == Init /\ [][NextRegistry]_vars


(***************************************************************************)
(* StreamingPrices: open(), close() and get_snapshot().  The member        *)
(* open_async coroutines never yield (they block in threading waits), so   *)
(* asyncio.wait runs them one after the other, in any order.               *)
(***************************************************************************)
ParamsFields == FieldNames
MinOf(S) == CHOOSE x \in S : \A y \in S : x <= y

(* streamingprices.py 191-209 *)
PricesOpenBegin(t) ==
    /\ pc[t] = "idle"
    /\ agg_caller = "none"
    /\ n_calls[t] < MaxCalls
    /\ n_calls' = [n_calls EXCEPT ![t] = @ + 1]
    /\ last_call' = [last_call EXCEPT ![t] = "prices_open"]
    /\ IF prices_state = "Open"
       THEN /\ Return(t, "None")
            /\ UNCHANGED <<prices_state, complete_event_nb, completed, agg_caller, agg_todo>>
       ELSE /\ prices_state' = "Pending"
            /\ complete_event_nb' = 0
            /\ completed' = {}
            /\ agg_caller' = t
            /\ agg_todo' = universe
            /\ pc' = [pc EXCEPT ![t] = "p_next"]
            /\ UNCHANGED ret
    /\ last' = Op("prices_open_begin", t, 0, NoMsg, "none")
    /\ UNCHANGED <<record, loop_calls, universe, snapshot>>
    /\ UNCHANGED <<sessVars, regVars, connVars, streamVars, target, wait, result>>

(* streamingprices.py 210-211, streamingprice.py 268-274: one member's open_async *)
PricesOpenMember(t) ==
    /\ pc[t] = "p_next"
    /\ agg_caller = t
    /\ last_call[t] = "prices_open"
    /\ \E s \in agg_todo :
          /\ agg_todo' = agg_todo \ {s}
          /\ OpenAsync(t, s)
    /\ UNCHANGED <<record, prices_state, complete_event_nb, completed, loop_calls, universe,
                   snapshot, agg_caller>>
    /\ UNCHANGED <<last_call, n_calls>>

(* streamingprices.py 212-214 *)
PricesOpenEnd(t) ==
    /\ pc[t] = "p_next"
    /\ agg_caller = t
    /\ last_call[t] = "prices_open"
    /\ agg_todo = {}
    /\ prices_state' = "Open"
    /\ agg_caller' = "none"
    /\ pc' = [pc EXCEPT ![t] = "idle"]
    /\ ret' = [ret EXCEPT ![t] = "Open"]
    /\ last' = Op("prices_open", t, 0, NoMsg, "none")
    /\ UNCHANGED <<record, complete_event_nb, completed, loop_calls, universe, snapshot,
                   agg_todo>>
    /\ UNCHANGED <<sessVars, regVars, connVars, streamVars,
                   target, wait, result, last_call, n_calls>>

(* streamingprices.py 216-217, and 221-222 when the aggregate is not Open *)
PricesCloseBegin(t) ==
    /\ pc[t] = "idle"
    /\ agg_caller = "none"
    /\ n_calls[t] < MaxCalls
    /\ n_calls' = [n_calls EXCEPT ![t] = @ + 1]
    /\ last_call' = [last_call EXCEPT ![t] = "prices_close"]
    /\ IF prices_state = "Open"
       THEN /\ agg_caller' = t
            /\ agg_todo' = universe
            /\ pc' = [pc EXCEPT ![t] = "p_next"]
            /\ UNCHANGED <<prices_state, ret>>
       ELSE /\ prices_state' = "Closed"
            /\ Return(t, "Closed")
            /\ UNCHANGED <<agg_caller, agg_todo>>
    /\ last' = Op("prices_close_begin", t, 0, NoMsg, "none")
    /\ UNCHANGED <<record, complete_event_nb, completed, loop_calls, universe, snapshot>>
    /\ UNCHANGED <<sessVars, regVars, connVars, streamVars, target, wait, result>>

(* streamingprices.py 219-220, streamingprice.py 258-264: the next member's close() *)
PricesCloseMember(t) ==
    /\ pc[t] = "p_next"
    /\ agg_caller = t
    /\ last_call[t] = "prices_close"
    /\ agg_todo # {}
    /\ agg_todo' = agg_todo \ {MinOf(agg_todo)}
    /\ CloseStart(t, MinOf(agg_todo))
    /\ UNCHANGED <<record, prices_state, complete_event_nb, completed, loop_calls, universe,
                   snapshot, agg_caller>>
    /\ UNCHANGED <<last_call, n_calls>>

(* streamingprices.py 221-222 *)
PricesCloseEnd(t) ==
    /\ pc[t] = "p_next"
    /\ agg_caller = t
    /\ last_call[t] = "prices_close"
    /\ agg_todo = {}
    /\ prices_state' = "Closed"
    /\ agg_caller' = "none"
    /\ pc' = [pc EXCEPT ![t] = "idle"]
    /\ ret' = [ret EXCEPT ![t] = "Closed"]
    /\ last' = Op("prices_close", t, 0, NoMsg, "none")
    /\ UNCHANGED <<record, complete_event_nb, completed, loop_calls, universe, snapshot,
                   agg_todo>>
    /\ UNCHANGED <<sessVars, regVars, connVars, streamVars,
                   target, wait, result, last_call, n_calls>>

(* cache.py 113-117: StreamCache.get_field_value; NoValue is None *)
GetFieldValue(rec, f) ==
    IF rec.present /\ rec.hasFields /\ rec.Fields # EmptyMap /\ f \in DOMAIN rec.Fields
    THEN rec.Fields[f]
    ELSE NoValue

(* cache.py 74-78: StreamCache.__getitem__, the value or a KeyError *)
GetItem(rec, f) ==
    IF rec.present /\ rec.hasFields /\ rec.Fields # EmptyMap /\ f \in DOMAIN rec.Fields
    THEN [exc |-> "none", value |-> rec.Fields[f]]
    ELSE [exc |-> "KeyError", value |-> NoValue]

(* field names a caller can ask for that the request did not list *)
UnrequestedFields == {"MID"}

(* cache.py 119-136: StreamCache.get_fields, for a record that has Fields  *)
(* or for no record; fields = {} is "no fields given".                     *)
GetFields(rec, fields) ==
    IF rec.present
    THEN IF fields # {}
         THEN [f \in fields |-> IF f \in DOMAIN rec.Fields THEN rec.Fields[f] ELSE NoValue]
         ELSE rec.Fields
    ELSE IF fields # {}
         THEN [f \in fields |-> NoValue]
         ELSE [f \in ParamsFields |-> NoValue]

(* streamingprices.py 279, had the requested names been ignored *)
InstrumentList(names) == [i \in 1..Cardinality(universe) |-> i]

(* streamingprices.py 279: _universe; names = <<>> is "no instruments given" *)
SnapshotUniverse(names) ==
    IF names # <<>> THEN names ELSE [i \in 1..Cardinality(universe) |-> i]

(* streamingprices.py 293-294: a falsy value (None, 0, missing) becomes    *)
(* None; to_numeric keeps a number and leaves a missing value missing      *)
SnapshotValue(d, f) ==
    IF f \in DOMAIN d /\ d[f] # NoValue /\ d[f] # 0 THEN d[f] ELSE NoValue

(* streamingprices.py 268-300 *)
GetSnapshot(t, names, fields) ==
    /\ pc[t] = "idle"
    /\ n_calls[t] < MaxCalls
    /\ n_calls' = [n_calls EXCEPT ![t] = @ + 1]
    /\ last_call' = [last_call EXCEPT ![t] = "get_snapshot"]
    /\ LET exc == IF \E i \in DOMAIN names : names[i] \notin universe THEN "NameError"
                  ELSE IF ~(fields \subseteq ParamsFields) THEN "EikonError"
                  ELSE IF \E s \in universe : record[s].present /\ ~record[s].hasFields
                       THEN "TypeError"
                  ELSE "none"
           u == SnapshotUniverse(names)
           all == [s \in universe |-> GetFields(record[s], fields)]
           cols == IF fields # {} THEN fields
                   ELSE UNION {DOMAIN all[u[i]] : i \in DOMAIN u}
           rows == [i \in DOMAIN u |->
                      [name |-> u[i],
                       values |-> [f \in cols |-> SnapshotValue(all[u[i]], f)]]]
       IN /\ snapshot' = [names |-> names, fields |-> fields,
                          rows |-> IF exc = "none" THEN rows ELSE <<>>, exc |-> exc]
          /\ ret' = [ret EXCEPT ![t] = exc]
          /\ last' = Op("get_snapshot", t, 0, NoMsg, exc)
    /\ UNCHANGED <<record, prices_state, complete_event_nb, completed, loop_calls, universe,
                   agg_caller, agg_todo>>
    /\ UNCHANGED <<sessVars, regVars, connVars, streamVars, pc, target, wait, result>>

(***************************************************************************)
(* SpecAgg: a StreamingPrices aggregate over NumMembers instruments, one   *)
(* caller thread calling its open(), close() and get_snapshot(), and the   *)
(* connection thread.                                                      *)
(***************************************************************************)
InitAgg ==
    /\ InitSession /\ InitConnection /\ InitStreams /\ InitCallers
    /\ Registered(NumMembers)
    /\ prices_state = "Closed"
    /\ complete_event_nb = 0
    /\ completed = {}
    /\ loop_calls = <<>>
    /\ universe = Members
    /\ snapshot = NoSnapshot
    /\ agg_caller = "none"
    /\ agg_todo = {}

AggLoginId == NumMembers + 1
BidAskOne == [f \in {"BID", "ASK"} |-> 1]
BidZero == [f \in {"BID"} |-> 0]
AskZero == [f \in {"ASK"} |-> 0]

AggMessages ==
    {LoginOk(AggLoginId)}
    \cup {Refresh(s, c, f) : s \in Members, c \in {"true", "false"}, f \in {BidAskOne, BidOne}}
    \cup {Update(s, f) : s \in Members, f \in {BidZero, AskZero, BidAskOne}}
    \cup {Status(1, "Open")}

SnapshotNames == {<<>>, <<1>>, <<2, 1>>, <<NumMembers + 1>>}
SnapshotFields == {{}, {"BID"}, {"BID", "ASK"}, {"MID"}}

AggFrame(m) == n_frames < MaxAggFrames /\ WsMessage(<<m>>)

NextAgg ==
    \/ SessionOpen("t1", TRUE)
    \/ PricesOpenBegin("t1")
    \/ PricesOpenMember("t1")
    \/ PricesOpenEnd("t1")
    \/ PricesCloseBegin("t1")
    \/ PricesCloseMember("t1")
    \/ PricesCloseEnd("t1")
    \/ \E names \in SnapshotNames, fields \in SnapshotFields : GetSnapshot("t1", names, fields)
    \/ StartStreaming("t1")
    \/ LoginWait("t1")
    \/ WaitForStreamingEnd("t1")
    \/ OpenSend("t1")
    \/ WaitForResponse("t1")
    \/ WaitClear("t1")
    \/ OpenReturn("t1")
    \/ CloseSetState("t1")
    \/ CloseEventSet("t1")
    \/ CloseEventClear("t1")
    \/ CloseReturn("t1")
    \/ RunWait
    \/ RunConnect
    \/ WsOpen
    \/ WsOpenStoreId
    \/ WsOpenLogin
    \/ \E m \in AggMessages : AggFrame(m)

SpecAgg == InitAgg /\ [][NextAgg]_vars

(* SpecAggSteps: the aggregate with the Refresh of its first member taken  *)
(* one step of ItemStream._on_refresh at a time, so that close() of the    *)
(* caller thread can run between two steps of the handler.                 *)
NextAggSteps ==
    \/ NextAgg
    \/ OnRefreshByStepsUpTo(MaxAggFrames)

SpecAggSteps == InitAgg /\ [][NextAggSteps]_vars

(***************************************************************************)
(* Properties.                                                             *)
(***************************************************************************)
IsConnectedEvent(e) == e.code = "StreamConnected"
ConnectedEvents(log) == Cardinality({i \in DOMAIN log : IsConnectedEvent(log[i])})
Registry == all_stream_subscriptions

(* C1: when close() is called by t2 while t1 is inside its first open()    *)
(* with the subscribe frame sent and no response received, then once       *)
(* close() has returned t1 is not left parked in the wait for the first    *)
(* response: open() can return without any inbound message.                *)
C1_CloseReleasesOpen ==
    (pc["t2"] = "idle" /\ last_call["t2"] = "close" /\ n_calls["t1"] = 1)
        => ~(pc["t1"] = "o_wait" /\ wait["t1"] = "blocked")

C3_UnknownIdDropped ==
    [][(/\ last'.op = "ws_message"
        /\ ~is_closing
        /\ last'.m.Type \in {"Refresh", "Update", "Status", "Error"}
        /\ last'.m.Domain # "Login"
        /\ last'.m.ID \notin DOMAIN Registry
        /\ (last'.m.Type = "Error" => last'.m.ID # ws_login_id))
       => (/\ net_exc' = "none"
           /\ UNCHANGED <<stream_state, response_event, code, message, cb, cb_arg,
                          record, loop_calls, complete_event_nb>>)]_vars

(* C7: after the login success received on the first socket of the         *)
(* connection, the Session state is Open and the user's event callback has *)
(* been given StreamConnected exactly once, by the login response.         *)
C7_ConnectedOnceByLogin ==
    (/\ last.op = "ws_message"
     /\ last.m = LoginOk(FirstLoginId)
     /\ ws_login_id = FirstLoginId)
    => (/\ session_state = "Open"
        /\ ConnectedEvents(event_log) = 1
        /\ \A i \in DOMAIN event_log :
              IsConnectedEvent(event_log[i]) => event_log[i].cause = "login")

(* C8: a registered Pending stream given {ID, Type: Refresh, Fields,       *)
(* Complete: true}, without State, becomes Open and its refresh callback   *)
(* is called once with those fields and its complete callback once.        *)
C8_RefreshOpensPending ==
    [][(/\ last'.op = "ws_message"
        /\ ~is_closing
        /\ last'.m = RefreshNoState(StreamOneId, BidOne)
        /\ GetStream(StreamOneId) = 1
        /\ stream_state[1] = "Pending")
       => (/\ stream_state'[1] = "Open"
           /\ cb'[1]["refresh"] = cb[1]["refresh"] + 1
           /\ cb_arg'[1] = BidOne
           /\ cb'[1]["complete"] = cb[1]["complete"] + 1)]_vars

FailedRegistryCall ==
    last'.exc = "EikonError" /\ UNCHANGED <<all_stream_subscriptions, id_request, stream_id>>

(* C4: _register_stream on a stream that carries an id fails, and          *)
(* _unregister_stream on a stream whose id is unset or not a key of the    *)
(* registry fails; the failing call leaves the registry, the id counter    *)
(* and every stream's id as they were.                                     *)
C4_RegistryCallsFail ==
    [][/\ (last'.op = "register" /\ stream_id[last'.s] # 0)
            => FailedRegistryCall
       /\ (last'.op = "unregister"
            /\ (stream_id[last'.s] = 0 \/ stream_id[last'.s] \notin DOMAIN Registry))
            => FailedRegistryCall]_vars

(* _unregister_stream has just failed on a stream whose id is set but is   *)
(* not a key of the registry.                                              *)
C4_Witness ==
    /\ last.op = "unregister"
    /\ last.exc = "EikonError"
    /\ stream_id[last.s] # 0

(* C10: every key of the registry maps to a stream carrying that id, no    *)
(* two streams carry the same id, a stream carries an id exactly while it  *)
(* is in the registry, an id is given to a stream only by                  *)
(* _register_stream, and _unregister_stream resets it.                     *)
C10_RegistryIds ==
    /\ [](\A k \in DOMAIN Registry : stream_id[Registry[k]] = k)
    /\ [](\A s1, s2 \in Streams :
             (s1 # s2 /\ stream_id[s1] # 0) => stream_id[s1] # stream_id[s2])
    /\ [](\A s \in Streams :
             stream_id[s] # 0 <=> (\E k \in DOMAIN Registry : Registry[k] = s))
    /\ [][\A s \in Streams :
             /\ (stream_id[s] = 0 /\ stream_id'[s] # 0)
                    => (last'.op = "register_insert" /\ last'.s = s)
             /\ (last'.op = "unregister" /\ last'.exc = "none" /\ last'.s = s)
                    => stream_id'[s] = 0]_vars

(* the callbacks handed to the event loop by the step *)
Scheduled(kind, s) ==
    \E i \in (Len(loop_calls) + 1)..Len(loop_calls') :
        loop_calls'[i] = [kind |-> kind, name |-> s]

(* C5: the aggregate's complete callback is scheduled only by a step after *)
(* which every member has signalled completion at least once in this open  *)
(* cycle, and a message schedules it at most once.                         *)
C5_CompleteAfterAllMembers ==
    [][Scheduled("complete", 0)
         => (/\ completed' = universe
             /\ Cardinality({i \in (Len(loop_calls) + 1)..Len(loop_calls') :
                                loop_calls'[i].kind = "complete"}) = 1)]_vars

(* C6: a refresh given to the cache makes every field's lookup the value   *)
(* the refresh has for it (none when it has none), and an update given to  *)
(* a cache that holds a refresh changes the lookup of the fields it        *)
(* contains to its values and of no other field; so the lookup of f is the *)
(* value in the last of R, U1, .., Un that contains f.                     *)
C6_LookupLastValue ==
    [][\A s \in universe : \A f \in FieldNames :
          /\ Scheduled("refresh", s)
                => GetFieldValue(record'[s], f) =
                      (IF f \in DOMAIN last'.m.Fields THEN last'.m.Fields[f] ELSE NoValue)
          /\ (Scheduled("update", s) /\ record[s].present)
                => GetFieldValue(record'[s], f) =
                      (IF f \in DOMAIN last'.m.Fields THEN last'.m.Fields[f]
                       ELSE GetFieldValue(record[s], f))]_vars

(* The spec's example: after refresh BID=1, ASK=1 the update BID=0 has     *)
(* just been merged; BID is 0 and ASK is still 1.                          *)
C6_Witness ==
    /\ last.op = "ws_message"
    /\ last.m = Update(1, BidZero)
    /\ record[1].present
    /\ GetFieldValue(record[1], "BID") = 0
    /\ GetFieldValue(record[1], "ASK") = 1
    /\ \E i \in DOMAIN loop_calls : loop_calls[i] = [kind |-> "update", name |-> 1]

C11_ClosedAfterShutdown ==
    (session_state = "Closed" /\ streaming_session # 0)
        => /\ is_closing
           /\ conn_is_closing
           /\ \E t \in Callers : pc[t] = "s_del"

(* C12: when Session.close() has been called by t2 while t1 is in the      *)
(* login wait of _start_streaming, t1 is not left parked on the login      *)
(* event in a state where no thread can take a step any more.              *)
C12_LoginWaitReleased ==
    ~(/\ pc["t1"] = "o_login_wait"
      /\ wait["t1"] = "blocked"
      /\ last_call["t2"] = "session_close"
      /\ ~ENABLED NextClose)

(* C13: when Session.close() has just returned, every stream registered    *)
(* with the Session is Closed and its id is cleared.                       *)
C13_CloseClosesStreams ==
    (last.op = "session_close" /\ last_call[last.who] = "session_close")
        => \A s \in Streams :
              (\E k \in DOMAIN Registry : Registry[k] = s)
                  => stream_state[s] = "Closed" /\ stream_id[s] = 0

(* C14: a call of open() on a stream that is Pending or Open, the Session  *)
(* not being Closed, returns the stream's state at once: the state is      *)
(* unchanged, no frame is sent and the caller waits for nothing.           *)
C14_OpenAgainReturnsState ==
    [][(/\ n_calls'["t1"] = n_calls["t1"] + 1
        /\ last_call'["t1"] = "open"
        /\ session_state # "Closed"
        /\ stream_state[1] \in {"Pending", "Open"})
       => (/\ pc'["t1"] = "idle"
           /\ ret'["t1"] = stream_state[1]
           /\ stream_state' = stream_state
           /\ sent' = sent
           /\ wait' = wait)]_vars

(* open() has just returned the state of a stream that was Pending *)
C14_Witness ==
    /\ last.op = "open_again"
    /\ ret["t1"] = "Pending"
    /\ pc["t1"] = "idle"

(* C15: when open() has just sent its subscribe frame and the stream is    *)
(* Pending, with nothing delivered and no close() called since, open()     *)
(* does not get past its wait for the first response: a signal left from   *)
(* before the frame was sent does not let it return.                       *)
C15_OpenWaitsForFreshResponse ==
    [][(/\ pc["t1"] = "o_wait"
        /\ last.op = "open_send"
        /\ stream_state[1] = "Pending")
       => pc'["t1"] = "o_wait"]_vars

(* C16: when wait_for_streaming has returned False to open_async, the next *)
(* step of open() sets the stream Closed and returns Closed: no frame is   *)
(* sent and the caller does not wait.                                      *)
C16_FailedStartClosesStream ==
    [][(/\ pc["t1"] = "o_send"
        /\ ~result["t1"]
        /\ pc'["t1"] # "o_send")
       => (/\ stream_state'[target["t1"]] = "Closed"
           /\ sent' = sent
           /\ pc'["t1"] = "idle"
           /\ ret'["t1"] = "Closed"
           /\ wait' = wait)]_vars

(* open() has just returned Closed after a login that failed *)
C16_Witness ==
    /\ last.op = "open"
    /\ last.exc = "none"
    /\ ~result["t1"]
    /\ ret["t1"] = "Closed"
    /\ \E i \in DOMAIN event_log :
          event_log[i] = [code |-> "StreamDisconnected", cause |-> "login"]
    /\ \A i \in DOMAIN sent : sent[i].kind # "Subscribe"

(* C17: when the connection thread has ended after a socket error or a     *)
(* disconnect that came after an open() had sent its subscribe frame, that *)
(* open() is not left parked in the wait for the first response with no    *)
(* thread able to take a step.                                             *)
C17_DisconnectReleasesOpens ==
    ~(/\ pc["t1"] = "o_wait"
      /\ wait["t1"] = "blocked"
      /\ Subscribed(stream_id[target["t1"]])
      /\ conn_state = "CLOSED"
      /\ net_pc = "n_end"
      /\ ~ENABLED Next)

(* C18: a login response that is not (Stream Open, Data Ok) is reported by *)
(* one call of the on_state callback and by no call of the on_event        *)
(* callback.                                                               *)
C18_LoginFailureOnStateChannel ==
    [][(/\ last'.op = "ws_message"
        /\ last'.m = LoginFailed(FirstLoginId)
        /\ ~is_closing)
       => (/\ Len(state_log') = Len(state_log) + 1
           /\ event_log' = event_log)]_vars

(* C19: when user callbacks raise during a frame, the frame is handled as  *)
(* the same frame with callbacks that return: no exception leaves the      *)
(* inbound handler, the same callbacks are called on every subscription    *)
(* (so the remaining messages of the frame are dispatched), and every      *)
(* subscription's state and response event end the same.                   *)
C19_CallbackExceptionSuppressed ==
    [][\A ms \in CallbackFrames, R \in RaisingSets :
          (n_frames' = n_frames + 1 /\ last'.m = ms[1] /\ RaisingFrame(ms, R)) =>
              LET w == OnMessage(World, ms)
              IN /\ last'.exc = w.exc
                 /\ cb' = w.cb
                 /\ stream_state' = w.stream_state
                 /\ response_event' = w.response_event
                 /\ wait' = w.wait]_vars

(* a frame whose first message is stream 1's terminal status, during which *)
(* a callback raised, and whose second message reached stream 2's refresh  *)
(* callback                                                                *)
C19_Witness ==
    /\ last.op = "ws_message_raised"
    /\ last.m = Status(StreamOneId, "Closed")
    /\ stream_state[1] = "Closed"
    /\ cb[1]["status"] > 0
    /\ cb[2]["refresh"] = 1
    /\ stream_state[2] = "Open"
    /\ n_frames = MaxCallbackFrames

(* C20: on a member's cache, the lookup of a field that was not requested *)
(* and the lookup of a requested field for which no value was received     *)
(* give outcomes the caller can tell apart, through __getitem__,           *)
(* get_field_value or get_fields.                                          *)
C20_NotFoundDistinctFromNoValue ==
    \A s \in Members, f \in ParamsFields, g \in UnrequestedFields :
        f \notin DOMAIN record[s].Fields =>
            \/ GetItem(record[s], f) # GetItem(record[s], g)
            \/ GetFieldValue(record[s], f) # GetFieldValue(record[s], g)
            \/ GetFields(record[s], {f})[f] # GetFields(record[s], {g})[g]

(* C21: once close() has returned (the opener's one open() was called      *)
(* before it, none after), the subscription is Closed, however the steps   *)
(* of close() fell between those of the refresh handler.                   *)
C21_ClosedAfterCloseReturns ==
    (last_call["t2"] = "close" /\ pc["t2"] = "idle") => stream_state[1] = "Closed"

(* C22: an Update frame for a subscribed stream calls the user's update    *)
(* callback only when the subscription is Open at delivery.                *)
C22_UpdateCallbackOnlyWhenOpen ==
    [][(/\ last'.op = "ws_message"
        /\ last'.m = Update(StreamOneId, BidOne)
        /\ Subscribed(StreamOneId)
        /\ cb'[1]["update"] > cb[1]["update"]) => stream_state[1] = "Open"]_vars

(* C23: a refresh (with its completion) or an error delivered for a        *)
(* registered subscription that is Closed calls no refresh, complete or    *)
(* error callback, leaves the state Closed, and sets the response event.   *)
C23_ClosedIgnoresRefreshAndError ==
    [][(/\ last'.op = "ws_message"
        /\ last'.m \in {Refresh(StreamOneId, "true", BidOne), Error(StreamOneId)}
        /\ GetStream(StreamOneId) = 1
        /\ stream_state[1] = "Closed")
       => (/\ stream_state'[1] = "Closed"
           /\ cb'[1]["refresh"] = cb[1]["refresh"]
           /\ cb'[1]["complete"] = cb[1]["complete"]
           /\ cb'[1]["error"] = cb[1]["error"]
           /\ response_event'[1])]_vars

(* the stream was subscribed, a terminal status closed it, and a refresh   *)
(* for it was then delivered                                               *)
C23_Witness ==
    /\ last.op = "ws_message"
    /\ last.m = Refresh(StreamOneId, "true", BidOne)
    /\ Subscribed(StreamOneId)
    /\ stream_state[1] = "Closed"
    /\ cb[1]["status"] > 0
    /\ cb[1]["refresh"] = 0
    /\ response_event[1]

(* C24: a status message for a registered subscription sets its state to   *)
(* Closed when the stream sub-status is terminal and leaves it unchanged    *)
(* otherwise; either way code and message are stored, the status callback  *)
(* is called once and the response event is set.                           *)
C24_StatusHandling ==
    [][(/\ last'.op = "ws_message"
        /\ last'.m.Type = "Status"
        /\ last'.m.ID = StreamOneId
        /\ last'.m.hasState
        /\ GetStream(StreamOneId) = 1)
       => (/\ stream_state'[1] = IF last'.m.Stream \in TerminalStreamStatus
                                 THEN "Closed" ELSE stream_state[1]
           /\ code'[1] = IF last'.m.Stream \in TerminalStreamStatus
                         THEN "Code" ELSE last'.m.Stream
           /\ message'[1] = "Text"
           /\ cb'[1]["status"] = cb[1]["status"] + 1
           /\ response_event'[1])]_vars

(* an Open subscription closed by a Redirect status *)
C24_Witness ==
    /\ last.op = "ws_message"
    /\ last.m = Status(StreamOneId, "Redirect")
    /\ cb[1]["refresh"] > 0
    /\ ret["t1"] = "Open"
    /\ stream_state[1] = "Closed"
    /\ code[1] = "Code"

(* C25: a login response (Refresh or Status of the Login domain) makes the *)
(* connection logged in and OPEN and the Session StreamConnected exactly   *)
(* when State.Stream is Open and State.Data is Ok; any other makes the     *)
(* connection CLOSED and the Session StreamDisconnected, the user's        *)
(* on_event being called with the login failure when the status changes.   *)
C25_LoginResponse ==
    [][(/\ last'.op = "ws_message"
        /\ last'.m.Type \in {"Refresh", "Status"}
        /\ last'.m.Domain = "Login"
        /\ last'.m.hasState)
       => IF last'.m.Stream = "Open" /\ last'.m.Data = "Ok"
          THEN /\ ws_is_logged'
               /\ conn_state' = "OPEN"
               /\ status' = "StreamConnected"
          ELSE /\ ws_is_logged' = ws_is_logged
               /\ conn_state' = "CLOSED"
               /\ status' = "StreamDisconnected"
               /\ status # "StreamDisconnected" =>
                     event_log' = Append(event_log, [code |-> "StreamDisconnected",
                                                     cause |-> "login"])]_vars

(* a Status of the Login domain with Stream Open and Data Suspect, after   *)
(* the socket had opened                                                   *)
C25_Witness ==
    /\ last.op = "ws_message"
    /\ last.m = LoginResponse("Status", FirstLoginId, "Open", "Suspect")
    /\ conn_state = "CLOSED"
    /\ ~ws_is_logged
    /\ status = "StreamDisconnected"
    /\ Len(event_log) = 2

(* C26: once a login response has been processed on the connection's live  *)
(* socket (the connection has left PENDING and the socket is connected),   *)
(* no thread is parked on the Session's login event, whether it began its  *)
(* wait before the response or after it.                                   *)
C26_LoginResponseReleasesWaiters ==
    \A t \in Callers :
        ~(/\ pc[t] = "o_login_wait"
          /\ wait[t] = "blocked"
          /\ ws_connected
          /\ ws_login_id # 0
          /\ conn_state \in {"OPEN", "CLOSED"})

(* C27: the connection's login id is None after a socket error, after a    *)
(* socket close and after a login response that is not (Open, Ok).         *)
C27_LoginIdCleared ==
    [][(\/ last'.op \in {"ws_error", "ws_close"}
        \/ /\ last'.op = "ws_message"
           /\ last'.m.Type \in {"Refresh", "Status"}
           /\ last'.m.Domain = "Login"
           /\ last'.m.hasState
           /\ ~(last'.m.Stream = "Open" /\ last'.m.Data = "Ok"))
       => ws_login_id' = 0]_vars

(* C28: a socket error leaves the connection not connected, not logged in, *)
(* without login id and closing, and the Session StreamDisconnected; and a *)
(* closing connection stays closing and never creates or connects a        *)
(* socket again.                                                           *)
C28_NoReconnectAfterError ==
    [][/\ last'.op = "ws_error" =>
            (/\ ~ws_connected'
             /\ ~ws_is_logged'
             /\ ws_login_id' = 0
             /\ status' = "StreamDisconnected"
             /\ conn_is_closing')
       /\ conn_is_closing =>
            (/\ conn_is_closing'
             /\ websocket' => websocket
             /\ ws_connected' => ws_connected
             /\ net_pc' \notin {"n_connecting", "n_open_store", "n_open_ret", "n_running"})]_vars

(* after a socket error the connection thread has ended, and a later       *)
(* open() has raised the start signal and waits for the login              *)
C28_Witness ==
    /\ conn_is_closing
    /\ net_pc = "n_end"
    /\ ~websocket
    /\ start_streaming_event
    /\ pc["t1"] = "o_login_wait"
    /\ n_calls["t1"] = MaxCalls

(* C29: a socket close on a connection that is not closing leaves it not   *)
(* connected, not logged in and not closing, the Session StreamDisconnected *)
(* and the connection thread back at the head of its loop, from where it   *)
(* waits for the start signal; the thread ends only when the closing flag  *)
(* is set.                                                                 *)
C29_ServerCloseKeepsThread ==
    [][/\ (last'.op = "ws_close" /\ ~conn_is_closing) =>
            (/\ net_pc' = "n_loop"
             /\ ~conn_is_closing'
             /\ ~ws_connected'
             /\ ~ws_is_logged'
             /\ status' = "StreamDisconnected")
       /\ (net_pc = "n_loop" /\ ~conn_is_closing /\ net_pc' # net_pc) =>
            net_pc' \in {"n_wait", "n_check"}
       /\ (net_pc' = "n_end" /\ net_pc # "n_end") => conn_is_closing]_vars

(* the server closed the socket after a login, and the connection thread   *)
(* is parked on its start event                                            *)
C29_Witness ==
    /\ \E i \in DOMAIN event_log : event_log[i].cause = "ws_close"
    /\ \E i \in DOMAIN event_log : event_log[i].cause = "login"
    /\ ~conn_is_closing
    /\ net_pc = "n_wait"
    /\ wait["net"] = "blocked"
    /\ status = "StreamDisconnected"

(* C30: on a Session that was not closed, after a socket error or a socket *)
(* close, an open() does not end parked on the login event with no thread  *)
(* left that can take a step.                                              *)
C30_OpenAfterDisconnectReturns ==
    ~(/\ session_state # "Closed"
      /\ \E i \in DOMAIN event_log : event_log[i].cause \in {"ws_error", "ws_close"}
      /\ pc["t1"] = "o_login_wait"
      /\ wait["t1"] \in {"blocked", "orphaned"}
      /\ ~ENABLED Next)

(* C31: an Error frame whose id is registered reaches that subscription's  *)
(* on_error; one whose id is not registered but is the connection's login  *)
(* id is handled without an exception and leaves the Session               *)
(* StreamDisconnected; any other changes nothing.                          *)
C31_ErrorFrameRouting ==
    [][(/\ last'.op = "ws_message"
        /\ last'.m.Type = "Error"
        /\ ~is_closing)
       => IF GetStream(last'.m.ID) # 0
          THEN /\ last'.exc = "none"
               /\ response_event'[GetStream(last'.m.ID)]
          ELSE IF last'.m.ID = ws_login_id
          THEN /\ last'.exc = "none"
               /\ status' = "StreamDisconnected"
          ELSE /\ last'.exc = "none"
               /\ UNCHANGED <<sessVars, streamVars, priceVars>>]_vars

C33_CallbackWithoutConnectionLock ==
    /\ net_pc = "h_callback" => "ws_lock" \notin NetLocks
    /\ ~(net_pc = "h_stop_wait" /\ wait["net"] = "blocked" /\ ~ENABLED NextReenter)

(* C34: the network thread never holds two of the registry lock, a         *)
(* subscription's lock and the connection's internal lock at once (the     *)
(* caller threads take only the registry lock, in _register_stream and     *)
(* _unregister_stream).                                                    *)
C34_AtMostOneLock == Cardinality(NetLocks) <= 1

(* C35: the callbacks of a StreamingPrices aggregate are handed to the     *)
(* Session's loop and never run by the network thread: a frame leaves the  *)
(* calls already queued in place, queues one refresh, update or status     *)
(* call for the member whose own callback of that kind it ran, queues the  *)
(* complete call when the last member completes, and queues nothing else.  *)
C35_AggregateCallbacksScheduled ==
    [][(n_frames' = n_frames + 1 /\ last'.op = "ws_message")
       => LET s == GetStream(last'.m.ID)
              n == Len(loop_calls)
              new == SubSeq(loop_calls', n + 1, Len(loop_calls'))
              called(k) == s # 0 /\ s \in universe /\ cb'[s][k] = cb[s][k] + 1
              queued(k, name) == \E i \in DOMAIN new : new[i] = [kind |-> k, name |-> name]
          IN  /\ Len(loop_calls') >= n
              /\ SubSeq(loop_calls', 1, n) = loop_calls
              /\ \A i \in DOMAIN new :
                    \/ /\ new[i].kind = "complete"
                       /\ called("complete")
                       /\ complete_event_nb' = Cardinality(universe)
                    \/ /\ new[i].kind \in {"refresh", "update", "status"}
                       /\ new[i].name = s
                       /\ called(new[i].kind)
              /\ (called("refresh") /\ last'.m.hasFields) => queued("refresh", s)
              /\ called("status") => queued("status", s)
              /\ (/\ called("update")
                  /\ last'.m.hasFields
                  /\ record[s].present
                  /\ record[s].hasFields) => queued("update", s)
              /\ (/\ called("complete")
                  /\ complete_event_nb' = Cardinality(universe)) => queued("complete", 0)]_vars

(* the frame of the last member to complete has queued its refresh call   *)
(* and then the aggregate's complete call                                  *)
C35_Witness ==
    /\ last.op = "ws_message"
    /\ last.m.Type = "Refresh"
    /\ Len(loop_calls) >= 2
    /\ loop_calls[Len(loop_calls)] = [kind |-> "complete", name |-> 0]
    /\ loop_calls[Len(loop_calls) - 1] = [kind |-> "refresh", name |-> last.s]
    /\ complete_event_nb = Cardinality(universe)

(* C36: when StreamingPrices.close() returns, the aggregate is Closed      *)
(* whatever it was before, and when it was Open every member is Closed by  *)
(* the time the aggregate becomes Closed.                                  *)
C36_CloseClosesMembers ==
    /\ last.op = "prices_close"
          => /\ prices_state = "Closed"
             /\ \A s \in universe : stream_state[s] = "Closed"
    /\ (last.op = "prices_close_begin" /\ pc[last.who] = "idle")
          => prices_state = "Closed"

(* C37: the ids drawn from the Session's generator only grow and are       *)
(* pairwise distinct, also when a caller registers a subscription while    *)
(* the network thread draws the login id in _ws_open: the login id of the  *)
(* connection is never the id of a registered subscription.                *)
C37_LoginIdDistinct ==
    /\ [](ws_login_id # 0 => ws_login_id \notin DOMAIN Registry)
    /\ [][id_request' >= id_request]_vars

(* C38: the connection is logged in only while it is connected and its     *)
(* state is OPEN; a failed login response leaves it not logged in.         *)
C38_LoggedImpliesConnectedOpen ==
    ws_is_logged => (ws_connected /\ conn_state = "OPEN")

(* C39: Session.close() called by a caller thread terminates: with no     *)
(* other caller inside a call, the thread in close() is never left parked  *)
(* in the wait for the stop event in a state where no thread can take a    *)
(* step any more.                                                          *)
C39_SessionCloseTerminates ==
    ~(/\ pc["t2"] = "s_stop_wait"
      /\ wait["t2"] = "blocked"
      /\ pc["t1"] = "idle"
      /\ ~ENABLED NextClose)

(* C40: close() of a subscription that is Pending or Open, whose subscribe *)
(* frame went out on the connection that is still up and has not been      *)
(* followed by a Close for its id, sends the Close frame carrying its id.  *)
C40_CloseFrameSent ==
    [][\A s \in Streams :
          (/\ last'.op = "close_begin"
           /\ last'.s = s
           /\ stream_state[s] \in {"Pending", "Open"}
           /\ websocket
           /\ ws_connected
           /\ \E i \in DOMAIN sent :
                 /\ sent[i] = [kind |-> "Subscribe", id |-> stream_id[s]]
                 /\ \A j \in (i + 1)..Len(sent) :
                       /\ sent[j].kind # "Login"
                       /\ sent[j] # [kind |-> "Close", id |-> stream_id[s]])
          => sent' = Append(sent, [kind |-> "Close", id |-> stream_id[s]])]_vars

====
